---- MODULE Spec2Model ----
(***************************************************************************)
(* Model of gto::cqueue<T, Allocator> (circular queue, bool-returning pop  *)
(* revision).  A container is a record of its data members; the buffer is  *)
(* a function from slot index to either a live element or Free (a slot     *)
(* holding no constructed object).  Every member function is an operator   *)
(* from the container (and its arguments) to a result record: the          *)
(* container afterwards, the exception that left the call (if any), the    *)
(* returned value, and what the call did with the allocator.               *)
(***************************************************************************)
EXTENDS Integers, Sequences, FiniteSets, TLC

(***************************************************************************)
(* Bounds of the model.                                                    *)
(***************************************************************************)
\* width of std::size_t in the model (std::ptrdiff_t has one bit less)
SizeBits ==
  7
\* largest capacity argument tried by the constructor (0 means unlimited)
MaxCap ==
  3
\* largest length a container is grown to by insertions
MaxLen ==
  3
\* largest argument of reserve()
MaxReserve ==
  4
\* the same three bounds when two containers interact
PairMaxCap ==
  1
PairMaxLen ==
  2
PairMaxReserve ==
  1
\* largest length in the growth-series specification
GrowthMaxLen ==
  17
\* largest length in the round-trip specification
RoundMaxLen ==
  3
\* iterators: capacity arguments, lengths, and increments of one traversal
IterMaxCap ==
  3
IterMaxLen ==
  3
IterMaxSteps ==
  4
\* version 1.0.5: positions the iterator is moved to
V105MaxPos ==
  4
\* buffers left without a container by the copies that throw
LeakMax ==
  1

(***************************************************************************)
(* Program constants.                                                      *)
(***************************************************************************)
GROWTH_FACTOR ==
  2
MIN_ALLOCATE ==
  8
SIZE_MAX ==
  2^SizeBits - 1
MAX_CAPACITY ==
  2^(SizeBits - 1) - 1

\* the two containers of the model
Queues ==
  {"q1", "q2"}
\* element values
Vals ==
  {"a", "b"}
\* a buffer slot holding no constructed element
Free ==
  "free"
\* exceptions
NoErr ==
  "none"
LengthError ==
  "length_error"
OutOfRange ==
  "out_of_range"
\* an exception thrown by a constructor of the element type, while the
\* elements are relocated or while the new element is constructed
RelocationError ==
  "relocation_error"
ConstructionError ==
  "construction_error"

Min(a, b) ==
  IF a < b THEN a ELSE b
\* unsigned arithmetic of size_type
Wrap(x) ==
  x % (SIZE_MAX + 1)

(***************************************************************************)
(* Data members and construction.                                          *)
(***************************************************************************)
\* the buffer of a container that owns no storage (mData == nullptr)
NoBuffer ==
  [k \in {} |-> Free]

\* default member initializers
Members ==
  [mData |-> NoBuffer, mReserved |-> 0, mCapacity |-> MAX_CAPACITY, mFront |-> 0, mLength |-> 0]

\* result of a call: container afterwards, exception, returned value,
\* allocate/deallocate calls made, live elements left in a deallocated
\* buffer, whether a slot was constructed twice or destroyed while not
\* live, and the number of elements destroyed by a rollback
Result(q, err, ret, allocs, deallocs, leaked, bad) ==
  [q |-> q, err |-> err, ret |-> ret, allocs |-> allocs, deallocs |-> deallocs,
   leaked |-> leaked, bad |-> bad, undone |-> 0]

Ok(q, ret) ==
  Result(q, NoErr, ret, 0, 0, 0, FALSE)

Throw(q, err) ==
  Result(q, err, "void", 0, 0, 0, FALSE)

\* cqueue(size_type capacity, alloc)
cqueue(capacity) ==
  IF capacity > MAX_CAPACITY
    THEN Throw(Members, LengthError)
    ELSE Ok([Members EXCEPT !.mCapacity = IF capacity = 0 THEN MAX_CAPACITY ELSE capacity], "void")

\* capacity()
capacity(q) ==
  IF q.mCapacity = MAX_CAPACITY THEN 0 ELSE q.mCapacity

size(q) ==
  q.mLength

reserved(q) ==
  q.mReserved

(***************************************************************************)
(* Index translation.                                                      *)
(***************************************************************************)
getUncheckedIndex(q, pos) ==
  Wrap(q.mFront + pos) % (IF q.mReserved = 0 THEN 1 ELSE q.mReserved)

\* variant: the position is checked against the buffer size
getCheckedIndexReserved(q, pos) ==
  IF pos >= q.mReserved
    THEN [err |-> OutOfRange, index |-> 0]
    ELSE [err |-> NoErr, index |-> getUncheckedIndex(q, pos)]

\* the index returned, or the exception thrown
getCheckedIndex(q, pos) ==
  IF pos >= q.mLength
    THEN [err |-> OutOfRange, index |-> 0]
    ELSE [err |-> NoErr, index |-> getUncheckedIndex(q, pos)]

\* operator[](n): mData[getCheckedIndex(n)]
subscript(q, n) ==
  IF getCheckedIndex(q, n).err # NoErr
    THEN Throw(q, getCheckedIndex(q, n).err)
    ELSE Ok(q, q.mData[getCheckedIndex(q, n).index])

front(q) ==
  subscript(q, 0)

back(q) ==
  subscript(q, Wrap(q.mLength - 1))

\* the logical content: element at position p for p = 0 .. mLength-1
Content(q) ==
  [p \in 1..q.mLength |-> q.mData[getUncheckedIndex(q, p - 1)]]

(***************************************************************************)
(* Storage management.                                                     *)
(***************************************************************************)
RECURSIVE GrowLinear(_, _)
\* variant: the buffer grows by a fixed amount
GrowLinear(ret, n) ==
  IF ret < n THEN GrowLinear(Wrap(ret + MIN_ALLOCATE), n) ELSE ret

RECURSIVE Grow(_, _)
\* while (ret < n) ret *= GROWTH_FACTOR
Grow(ret, n) ==
  IF ret < n THEN Grow(Wrap(ret * GROWTH_FACTOR), n) ELSE ret

getNewMemoryLength(q, n) ==
  Min(Grow(IF q.mReserved = 0 THEN Min(q.mCapacity, MIN_ALLOCATE) ELSE q.mReserved, n),
      q.mCapacity)

\* number of live elements of a buffer
Live(buf) ==
  Cardinality({k \in DOMAIN buf : buf[k] # Free})

\* variant: while (--i > 0) destroy(tmp + i)
RollbackShort(i) ==
  1..(i - 1)

\* while (i-- > 0) destroy(tmp + i): the slots destroyed when the copy of
\* element i threw
Rollback(i) ==
  0..(i - 1)

\* variant: the elements keep their slots when they are copied
resizeKeepsSlots(q, len, failAt) ==
  LET n   == Min(failAt, q.mLength)
      tmp == [k \in 0..(len - 1) |-> IF k < n THEN q.mData[k] ELSE Free]
  IN IF failAt < q.mLength
       THEN [Result(q, RelocationError, "void", 1, 1, 0, FALSE) EXCEPT !.undone = n]
       ELSE Result([q EXCEPT !.mData = tmp, !.mReserved = len, !.mFront = 0],
                   NoErr, "void", 1, IF q.mReserved > 0 THEN 1 ELSE 0, 0, FALSE)

\* resize(len); failAt is the position whose copy construction throws
\* (failAt >= mLength: none throws, as with a nothrow move constructor)
resize(q, len, failAt) ==
  LET n   == Min(failAt, q.mLength)
      tmp == [k \in 0..(len - 1) |->
                IF k < n THEN q.mData[getUncheckedIndex(q, k)] ELSE Free]
      old == [k \in 0..(q.mReserved - 1) |->
                IF \E j \in 0..(q.mLength - 1) : getUncheckedIndex(q, j) = k
                  THEN Free ELSE q.mData[k]]
  IN IF failAt < q.mLength
       THEN LET rest == [k \in 0..(len - 1) |-> IF k \in Rollback(n) THEN Free ELSE tmp[k]]
            IN [Result(q, RelocationError, "void", 1, 1, Live(rest),
                       \E k \in Rollback(n) : k \notin DOMAIN tmp \/ tmp[k] = Free)
                  EXCEPT !.undone = Cardinality(Rollback(n))]
       ELSE Result([q EXCEPT !.mData = tmp, !.mReserved = len, !.mFront = 0],
                   NoErr, "void", 1, IF q.mReserved > 0 THEN 1 ELSE 0, Live(old),
                   n > len)

\* variant: the capacity is not checked
resizeIfRequiredUnchecked(q, n, failAt) ==
  IF n <= q.mReserved
    THEN Ok(q, "void")
    ELSE resize(q, getNewMemoryLength(q, n), failAt)

\* variant: if (n < mReserved) return
resizeIfRequiredStrict(q, n, failAt) ==
  IF n < q.mReserved
    THEN Ok(q, "void")
    ELSE IF n > q.mCapacity
      THEN Throw(q, LengthError)
      ELSE resize(q, getNewMemoryLength(q, n), failAt)

resizeIfRequired(q, n, failAt) ==
  IF n <= q.mReserved
    THEN Ok(q, "void")
    ELSE IF n > q.mCapacity
      THEN Throw(q, LengthError)
      ELSE resize(q, getNewMemoryLength(q, n), failAt)

\* variant: the buffer is resized to n whenever n elements fit the content
reserveExact(q, n, failAt) ==
  IF n = q.mReserved \/ n < q.mLength
    THEN Ok(q, "void")
    ELSE IF n > q.mCapacity
      THEN Throw(q, LengthError)
      ELSE resize(q, n, failAt)

\* variant: the buffer grows to the length used by insertions
reserveGrown(q, n, failAt) ==
  IF n <= q.mReserved
    THEN Ok(q, "void")
    ELSE IF n > q.mCapacity
      THEN Throw(q, LengthError)
      ELSE resize(q, getNewMemoryLength(q, n), failAt)

\* variant: if (n < mReserved) return
reserveStrict(q, n, failAt) ==
  IF n < q.mReserved
    THEN Ok(q, "void")
    ELSE IF n > q.mCapacity
      THEN Throw(q, LengthError)
      ELSE resize(q, n, failAt)

reserve(q, n, failAt) ==
  IF n <= q.mReserved
    THEN Ok(q, "void")
    ELSE IF n > q.mCapacity
      THEN Throw(q, LengthError)
      ELSE resize(q, n, failAt)

\* variant: the front index is kept
clearKeepsFront(q) ==
  Ok([q EXCEPT !.mData = [k \in 0..(q.mReserved - 1) |-> Free], !.mLength = 0], "void")

\* destroy every live element, keep the buffer
clear(q) ==
  Ok([q EXCEPT !.mData = [k \in 0..(q.mReserved - 1) |->
                            IF \E j \in 0..(q.mLength - 1) : getUncheckedIndex(q, j) = k
                              THEN Free ELSE q.mData[k]],
               !.mFront = 0, !.mLength = 0], "void")

\* clear() and deallocate
reset(q) ==
  Result([clear(q).q EXCEPT !.mData = NoBuffer, !.mReserved = 0],
         NoErr, "void", 0, IF q.mReserved > 0 THEN 1 ELSE 0, Live(clear(q).q.mData), FALSE)

\* variant: the buffer gives up one slot at a time
shrink_to_fitByOne(q, failAt) ==
  IF q.mReserved = 0
    THEN Ok(q, "void")
    ELSE IF q.mLength = 0
      THEN reset(q)
      ELSE IF q.mLength = q.mReserved
        THEN Ok(q, "void")
        ELSE resize(q, q.mReserved - 1, failAt)

\* variant: small buffers are shrunk too
shrink_to_fitSmall(q, failAt) ==
  IF q.mReserved = 0
    THEN Ok(q, "void")
    ELSE IF q.mLength = 0
      THEN reset(q)
      ELSE IF q.mLength = q.mReserved
        THEN Ok(q, "void")
        ELSE resize(q, q.mLength, failAt)

shrink_to_fit(q, failAt) ==
  IF q.mReserved = 0
    THEN Ok(q, "void")
    ELSE IF q.mLength = 0
      THEN reset(q)
      ELSE IF q.mLength = q.mReserved \/ q.mReserved <= MIN_ALLOCATE
        THEN Ok(q, "void")
        ELSE resize(q, q.mLength, failAt)

(***************************************************************************)
(* Mutators.  ctorThrows: the construction of the new element throws.      *)
(***************************************************************************)
\* variant: mFront is updated before the element is constructed
constructEarlyFront(r, index, val, newFront, ctorThrows) ==
  IF ctorThrows
    THEN [r EXCEPT !.err = ConstructionError, !.q = [r.q EXCEPT !.mFront = newFront]]
    ELSE [r EXCEPT !.q = [r.q EXCEPT !.mData = [r.q.mData EXCEPT ![index] = val],
                                     !.mFront = newFront,
                                     !.mLength = r.q.mLength + 1],
                   !.ret = val,
                   !.bad = r.bad \/ r.q.mData[index] # Free]

\* allocator_traits::construct(mData + index, val) followed by the updates
\* of mFront and mLength that follow it in the caller
construct(r, index, val, newFront, ctorThrows) ==
  IF ctorThrows
    THEN [r EXCEPT !.err = ConstructionError]
    ELSE [r EXCEPT !.q = [r.q EXCEPT !.mData = [r.q.mData EXCEPT ![index] = val],
                                     !.mFront = newFront,
                                     !.mLength = r.q.mLength + 1],
                   !.ret = val,
                   !.bad = r.bad \/ r.q.mData[index] # Free]

\* variant: the slot is computed before the buffer is resized
push_backStale(q, val, failAt, ctorThrows) ==
  LET r == resizeIfRequired(q, q.mLength + 1, failAt)
  IN IF r.err # NoErr
       THEN r
       ELSE [construct(r, getUncheckedIndex(q, q.mLength) % r.q.mReserved, val, r.q.mFront,
                       ctorThrows)
               EXCEPT !.ret = "void"]

push_back(q, val, failAt, ctorThrows) ==
  LET r == resizeIfRequired(q, q.mLength + 1, failAt)
  IN IF r.err # NoErr
       THEN r
       ELSE [construct(r, getUncheckedIndex(r.q, r.q.mLength), val, r.q.mFront, ctorThrows)
               EXCEPT !.ret = "void"]

\* variant: the slot is computed before the buffer is resized
push_frontStale(q, val, failAt, ctorThrows) ==
  LET r     == resizeIfRequired(q, q.mLength + 1, failAt)
      index == IF q.mLength = 0 THEN 0
               ELSE (IF q.mFront = 0 THEN q.mReserved ELSE q.mFront) - 1
  IN IF r.err # NoErr
       THEN r
       ELSE [construct(r, index, val, index, ctorThrows) EXCEPT !.ret = "void"]

push_front(q, val, failAt, ctorThrows) ==
  LET r     == resizeIfRequired(q, q.mLength + 1, failAt)
      index == IF r.q.mLength = 0 THEN 0
               ELSE (IF r.q.mFront = 0 THEN r.q.mReserved ELSE r.q.mFront) - 1
  IN IF r.err # NoErr
       THEN r
       ELSE [construct(r, index, val, index, ctorThrows) EXCEPT !.ret = "void"]

\* returns a reference to the new element
emplace_back(q, val, failAt, ctorThrows) ==
  LET r == resizeIfRequired(q, q.mLength + 1, failAt)
  IN IF r.err # NoErr
       THEN r
       ELSE construct(r, getUncheckedIndex(r.q, r.q.mLength), val, r.q.mFront, ctorThrows)

\* variant: an empty container is not treated apart
emplace_frontAnyLength(q, val, failAt, ctorThrows) ==
  LET r     == resizeIfRequired(q, q.mLength + 1, failAt)
      index == (IF r.q.mFront = 0 THEN r.q.mReserved ELSE r.q.mFront) - 1
  IN IF r.err # NoErr
       THEN r
       ELSE construct(r, index, val, index, ctorThrows)

emplace_front(q, val, failAt, ctorThrows) ==
  LET r     == resizeIfRequired(q, q.mLength + 1, failAt)
      index == IF r.q.mLength = 0 THEN 0
               ELSE (IF r.q.mFront = 0 THEN r.q.mReserved ELSE r.q.mFront) - 1
  IN IF r.err # NoErr
       THEN r
       ELSE construct(r, index, val, index, ctorThrows)

\* variant: the new front is not reduced modulo the buffer size
pop_frontNoWrap(q) ==
  IF q.mLength = 0
    THEN Ok(q, "false")
    ELSE Result([q EXCEPT !.mData = [q.mData EXCEPT ![q.mFront] = Free],
                          !.mFront = q.mFront + 1,
                          !.mLength = q.mLength - 1],
                NoErr, "true", 0, 0, 0, q.mData[q.mFront] = Free)

\* variant: the front index returns to 0 when the last element is removed
pop_frontRewinds(q) ==
  IF q.mLength = 0
    THEN Ok(q, "false")
    ELSE Result([q EXCEPT !.mData = [q.mData EXCEPT ![q.mFront] = Free],
                          !.mFront = IF q.mLength = 1 THEN 0 ELSE getUncheckedIndex(q, 1),
                          !.mLength = q.mLength - 1],
                NoErr, "true", 0, 0, 0, q.mData[q.mFront] = Free)

pop_front(q) ==
  IF q.mLength = 0
    THEN Ok(q, "false")
    ELSE Result([q EXCEPT !.mData = [q.mData EXCEPT ![q.mFront] = Free],
                          !.mFront = getUncheckedIndex(q, 1),
                          !.mLength = q.mLength - 1],
                NoErr, "true", 0, 0, 0, q.mData[q.mFront] = Free)

\* variant: the element removed is not destroyed
pop_backNoDestroy(q) ==
  IF q.mLength = 0
    THEN Ok(q, "false")
    ELSE Ok([q EXCEPT !.mLength = q.mLength - 1], "true")

\* variant: the result does not tell whether an element was erased
pop_backAlwaysTrue(q) ==
  IF q.mLength = 0
    THEN Ok(q, "true")
    ELSE Result([q EXCEPT !.mData = [q.mData EXCEPT ![getUncheckedIndex(q, q.mLength - 1)] = Free],
                          !.mLength = q.mLength - 1],
                NoErr, "true", 0, 0, 0, q.mData[getUncheckedIndex(q, q.mLength - 1)] = Free)

pop_back(q) ==
  IF q.mLength = 0
    THEN Ok(q, "false")
    ELSE Result([q EXCEPT !.mData = [q.mData EXCEPT ![getUncheckedIndex(q, q.mLength - 1)] = Free],
                          !.mLength = q.mLength - 1],
                NoErr, "true", 0, 0, 0, q.mData[getUncheckedIndex(q, q.mLength - 1)] = Free)

\* emplace(args): return emplace_back(args)
emplace(q, val, failAt, ctorThrows) ==
  emplace_back(q, val, failAt, ctorThrows)

\* push(val): return push_back(val)
push(q, val, failAt, ctorThrows) ==
  push_back(q, val, failAt, ctorThrows)

\* variant: pop() removes the last element
popFromBack(q) ==
  pop_back(q)

\* pop(): return pop_front()
pop(q) ==
  pop_front(q)

\* variant: the front indexes are not exchanged
swapKeepsFront(q, other) ==
  <<[other EXCEPT !.mFront = q.mFront], [q EXCEPT !.mFront = other.mFront]>>

\* variant: the capacities are not exchanged
swapKeepsCapacity(q, other) ==
  <<[other EXCEPT !.mCapacity = q.mCapacity], [q EXCEPT !.mCapacity = other.mCapacity]>>

\* std::swap of every member of two containers: <<this, other>> afterwards
swap(q, other) ==
  <<other, q>>

(***************************************************************************)
(* Copy and move.  A result of these carries the other container too.      *)
(***************************************************************************)
\* the calls of r1 followed by the calls of r2
Then(r1, r2) ==
  [r2 EXCEPT !.allocs = r1.allocs + r2.allocs, !.deallocs = r1.deallocs + r2.deallocs,
             !.leaked = r1.leaked + r2.leaked, !.bad = r1.bad \/ r2.bad,
             !.undone = r1.undone + r2.undone]

RECURSIVE CopyLoop(_, _, _, _)
\* for (i = 0; i < other.size(); ++i) push_back(other[i]), from position i;
\* the copy of the element at position failAt throws
CopyLoop(r, other, i, failAt) ==
  IF i >= size(other) \/ r.err # NoErr
    THEN r
    ELSE CopyLoop(Then(r, push_back(r.q, subscript(other, i).ret, r.q.mLength, i = failAt)),
                  other, i + 1, failAt)

\* variant: the members are copied one by one, as by a defaulted copy
\* constructor
copy_constructShallow(other, failAt) ==
  Ok(other, "void")

\* cqueue(const cqueue &other, alloc): the object under construction; when
\* err is set the constructor was left by the exception
copy_construct(other, failAt) ==
  CopyLoop(resizeIfRequired([Members EXCEPT !.mCapacity = other.mCapacity],
                            other.mLength, 0),
           other, 0, failAt)

WithOther(r, other) ==
  [q |-> r.q, other |-> other, err |-> r.err, ret |-> r.ret, allocs |-> r.allocs,
   deallocs |-> r.deallocs, leaked |-> r.leaked, bad |-> r.bad, undone |-> r.undone]

\* cqueue(cqueue &&other): swap into the default-initialized members
move_construct(other) ==
  WithOther(Ok(swap(Members, other)[1], "void"), swap(Members, other)[2])

\* variant: with a non-equal allocator only the capacity is taken over
move_construct_allocEmpty(other, allocEqual, failAt) ==
  IF allocEqual
    THEN move_construct(other)
    ELSE WithOther(Ok([Members EXCEPT !.mCapacity = other.mCapacity], "void"), other)

\* cqueue(cqueue &&other, alloc)
move_construct_alloc(other, allocEqual, failAt) ==
  IF allocEqual
    THEN move_construct(other)
    ELSE LET c == copy_construct(other, failAt)
         IN IF c.err # NoErr
              THEN WithOther(c, other)
              ELSE WithOther([Then(c, reset(swap(Members, c.q)[2]))
                                EXCEPT !.q = swap(Members, c.q)[1]], other)

\* operator=(const cqueue &other): copy into tmp, swap, destroy tmp
copy_assign(q, other, failAt) ==
  LET tmp == copy_construct(other, failAt)
  IN IF tmp.err # NoErr
       THEN WithOther([tmp EXCEPT !.q = q], other)
       ELSE WithOther([Then(tmp, reset(swap(q, tmp.q)[2])) EXCEPT !.q = swap(q, tmp.q)[1]], other)

\* variant: the source keeps its content
move_assignKeepsSource(q, other) ==
  WithOther(Then(reset(q), Ok(other, "void")), other)

\* variant: the destination's content is released and the source left
\* default-initialized
move_assignRelease(q, other) ==
  WithOther(Then(reset(q), Ok(other, "void")), Members)

\* operator=(cqueue &&other)
move_assign(q, other) ==
  WithOther(Ok(swap(q, other)[1], "void"), swap(q, other)[2])

(***************************************************************************)
(* The revision of src/cqueue.hpp: push, emplace and push_front, with      *)
(* resizeIfRequired and reserve returning early only when n < mReserved.   *)
(* getNewMemoryLength, resize and the pops are those above.                *)
(***************************************************************************)
resizeIfRequired_hpp(q, n, failAt) ==
  IF n < q.mReserved
    THEN Ok(q, "void")
    ELSE IF n > q.mCapacity
      THEN Throw(q, LengthError)
      ELSE resize(q, getNewMemoryLength(q, n), failAt)

reserve_hpp(q, n, failAt) ==
  IF n < q.mReserved
    THEN Ok(q, "void")
    ELSE IF n > q.mCapacity
      THEN Throw(q, LengthError)
      ELSE resize(q, n, failAt)

push_hpp(q, val, failAt, ctorThrows) ==
  LET r == resizeIfRequired_hpp(q, q.mLength + 1, failAt)
  IN IF r.err # NoErr
       THEN r
       ELSE [construct(r, getUncheckedIndex(r.q, r.q.mLength), val, r.q.mFront, ctorThrows)
               EXCEPT !.ret = "void"]

emplace_hpp(q, val, failAt, ctorThrows) ==
  LET r == resizeIfRequired_hpp(q, q.mLength + 1, failAt)
  IN IF r.err # NoErr
       THEN r
       ELSE [construct(r, getUncheckedIndex(r.q, r.q.mLength), val, r.q.mFront, ctorThrows)
               EXCEPT !.ret = "void"]

push_front_hpp(q, val, failAt, ctorThrows) ==
  LET r     == resizeIfRequired_hpp(q, q.mLength + 1, failAt)
      index == IF r.q.mLength = 0 THEN 0
               ELSE (IF r.q.mFront = 0 THEN r.q.mReserved ELSE r.q.mFront) - 1
  IN IF r.err # NoErr
       THEN r
       ELSE [construct(r, index, val, index, ctorThrows) EXCEPT !.ret = "void"]

\* default member initializers of src/cqueue.hpp
Members_hpp ==
  [mData |-> NoBuffer, mReserved |-> 0, mCapacity |-> 0, mFront |-> 0, mLength |-> 0]

\* cqueue(cqueue &&other) noexcept { this->swap(other); }
move_construct_hpp(other) ==
  WithOther(Ok(swap(Members_hpp, other)[1], "void"), swap(Members_hpp, other)[2])

RECURSIVE MoveLoop_hpp(_, _, _)
\* for (i = 0; i < other.size(); ++i) push(std::move(other[i])), from
\* position i
MoveLoop_hpp(r, other, i) ==
  IF i >= size(other) \/ r.err # NoErr
    THEN r
    ELSE MoveLoop_hpp(Then(r, push_hpp(r.q, subscript(other, i).ret, r.q.mLength, FALSE)),
                      other, i + 1)

\* cqueue(cqueue &&other, alloc): swap into members with mCapacity =
\* max_capacity() when the allocators are equal; otherwise take the capacity,
\* move the elements one by one, other.reset() and other.mCapacity = 0
move_construct_alloc_hpp(other, allocEqual) ==
  IF allocEqual
    THEN WithOther(Ok(swap(Members, other)[1], "void"), swap(Members, other)[2])
    ELSE LET c == MoveLoop_hpp(resizeIfRequired_hpp([Members EXCEPT !.mCapacity = other.mCapacity],
                                                    other.mLength, 0),
                               other, 0)
         IN WithOther(Then(c, [reset(other) EXCEPT !.q = c.q]),
                      [reset(other).q EXCEPT !.mCapacity = 0])

(***************************************************************************)
(* Iterators (class iter).  An iterator is a container and a position;     *)
(* difference_type is the signed type as wide as size_type.  The sum of    *)
(* two positions that does not fit difference_type is undefined: it comes  *)
(* out wrapped (the machine addition) or exact (the value comparisons are  *)
(* folded with when the compiler assumes that no overflow happens).        *)
(***************************************************************************)
DIFF_MAX ==
  2^(SizeBits - 1) - 1
DIFF_MIN ==
  0 - 2^(SizeBits - 1)

\* the outcomes of a + b in difference_type
DiffSum(a, b) ==
  IF a + b >= DIFF_MIN /\ a + b <= DIFF_MAX
    THEN {a + b}
    ELSE {a + b, ((a + b - DIFF_MIN) % 2^SizeBits) + DIFF_MIN}

\* cast(n): n < 0 ? queue->size() : static_cast<size_type>(n)
cast(q, n) ==
  IF n < 0 THEN size(q) ELSE Wrap(n)

\* variant: the position is bounded below only
clampBelow(q, p) ==
  IF p < 0 - 1 THEN 0 - 1 ELSE p

\* clamp(p): std::clamp(p, -1, size())
clamp(q, p) ==
  IF p < 0 - 1 THEN 0 - 1 ELSE IF size(q) < p THEN size(q) ELSE p

\* iter(o, p): queue{o}, pos{clamp(p)}
iter(i, q, p) ==
  [queue |-> i, pos |-> clamp(q, p)]

\* variant: begin() is the iterator after the first element
beginAtOne(i, q) ==
  iter(i, q, 1)

begin(i, q) ==
  iter(i, q, 0)

end(i, q) ==
  iter(i, q, size(q))

\* operator*(): queue->operator[](cast(pos))
deref(q, x) ==
  subscript(q, cast(q, x.pos))

\* operator->(): &(queue->operator[](cast(pos)))
arrow(q, x) ==
  subscript(q, cast(q, x.pos))

\* variant: the offset is left out
iter_subscriptAtPos(q, x, sum) ==
  subscript(q, cast(q, x.pos))

\* operator[](rhs): queue->operator[](cast(pos + rhs)), for the outcome sum
\* of pos + rhs
iter_subscript(q, x, sum) ==
  subscript(q, cast(q, sum))

\* operator<=>
compare(x, y) ==
  IF x.queue # y.queue THEN "unordered"
  ELSE IF x.pos < y.pos THEN "less"
  ELSE IF x.pos > y.pos THEN "greater"
  ELSE "equivalent"

\* operator==
equal(x, y) ==
  compare(x, y) = "equivalent"

\* operator+=(rhs): pos = clamp(pos + rhs), for the outcome sum of pos + rhs
add_assign(q, x, sum) ==
  [x EXCEPT !.pos = clamp(q, sum)]

\* operator-=(rhs): pos = clamp(pos - rhs), for the outcome sum of pos - rhs
sub_assign(q, x, sum) ==
  [x EXCEPT !.pos = clamp(q, sum)]

\* operator++(): return *this += 1
increment(q, x, sum) ==
  add_assign(q, x, sum)

\* operator--(): return *this += -1
decrement(q, x, sum) ==
  add_assign(q, x, sum)

\* operator+(rhs): iter{queue, pos + rhs}
plus(q, x, sum) ==
  iter(x.queue, q, sum)

\* operator-(rhs): iter{queue, pos - rhs}
minus(q, x, sum) ==
  iter(x.queue, q, sum)

(***************************************************************************)
(* The iterator of src/cqueue.hpp: the constructor bounds the position on  *)
(* both sides, operator++ and operator+= above only, operator-- and        *)
(* operator-= below only.                                                  *)
(***************************************************************************)
\* the value of difference_type that is stored for the outcome s
DiffWrap(s) ==
  ((s - DIFF_MIN) % 2^SizeBits) + DIFF_MIN

\* iterator(o, p): queue(o), pos(p < 0 ? -1 : (p < size() ? p : size()))
iter_hpp(i, q, p) ==
  [queue |-> i, pos |-> IF p < 0 THEN 0 - 1 ELSE IF p < size(q) THEN p ELSE size(q)]

begin_hpp(i, q) ==
  iter_hpp(i, q, 0)

end_hpp(i, q) ==
  iter_hpp(i, q, size(q))

\* operator++(): pos = (pos + 1 < size() ? pos + 1 : size())
increment_hpp(q, x, sum) ==
  [x EXCEPT !.pos = IF sum < size(q) THEN DiffWrap(sum) ELSE size(q)]

\* operator--(): pos = (pos < 0 ? -1 : pos - 1)
decrement_hpp(q, x) ==
  [x EXCEPT !.pos = IF x.pos < 0 THEN 0 - 1 ELSE x.pos - 1]

\* operator+=(rhs): pos = (pos + rhs < size() ? pos + rhs : size()), for the
\* outcome sum of pos + rhs
add_assign_hpp(q, x, sum) ==
  [x EXCEPT !.pos = IF sum < size(q) THEN DiffWrap(sum) ELSE size(q)]

\* operator-=(rhs): pos = (pos - rhs < 0 ? -1 : pos - rhs), for the outcome
\* sum of pos - rhs
sub_assign_hpp(q, x, sum) ==
  [x EXCEPT !.pos = IF sum < 0 THEN 0 - 1 ELSE DiffWrap(sum)]

(***************************************************************************)
(* Version 1.0.5: the iterator keeps the position it is given, and the     *)
(* pops return the element removed.                                        *)
(***************************************************************************)
\* iter(other, position): queue{other}, pos{position}
iter_v105(i, p) ==
  [queue |-> i, pos |-> p]

begin_v105(i, q) ==
  iter_v105(i, 0)

end_v105(i, q) ==
  iter_v105(i, size(q))

\* operator+=(rhs): pos += rhs
add_assign_v105(x, sum) ==
  [x EXCEPT !.pos = sum]

\* operator++(): return *this += 1
increment_v105(x, sum) ==
  add_assign_v105(x, sum)

\* operator--(): return *this += -1
decrement_v105(x, sum) ==
  add_assign_v105(x, sum)

\* variant: an empty container is left alone and reported
pop_front_v105Silent(q) ==
  IF q.mLength = 0
    THEN Ok(q, "none")
    ELSE Result([q EXCEPT !.mData = [q.mData EXCEPT ![q.mFront] = Free],
                          !.mFront = getUncheckedIndex(q, 1),
                          !.mLength = Wrap(q.mLength - 1)],
                NoErr, front(q).ret, 0, 0, 0, q.mData[q.mFront] = Free)

\* value_type ret{std::move(front())}; destroy; mFront = getUncheckedIndex(1);
\* --mLength; return ret
pop_front_v105(q) ==
  IF front(q).err # NoErr
    THEN Throw(q, front(q).err)
    ELSE Result([q EXCEPT !.mData = [q.mData EXCEPT ![q.mFront] = Free],
                          !.mFront = getUncheckedIndex(q, 1),
                          !.mLength = Wrap(q.mLength - 1)],
                NoErr, front(q).ret, 0, 0, 0, q.mData[q.mFront] = Free)

\* value_type ret{std::move(back())}; destroy the last element; --mLength;
\* return ret
pop_back_v105(q) ==
  IF back(q).err # NoErr
    THEN Throw(q, back(q).err)
    ELSE Result([q EXCEPT !.mData = [q.mData EXCEPT ![getUncheckedIndex(q, Wrap(q.mLength - 1))] = Free],
                          !.mLength = Wrap(q.mLength - 1)],
                NoErr, back(q).ret, 0, 0, 0, q.mData[getUncheckedIndex(q, Wrap(q.mLength - 1))] = Free)

\* pop(): return pop_front()
pop_v105(q) ==
  pop_front_v105(q)

(***************************************************************************)
(* State: the containers (alive between construction and destruction), a   *)
(* reference double-ended queue per container, and the record of the last  *)
(* call.                                                                   *)
(***************************************************************************)
VARIABLES queue, alive, ref, op, round, it

vars ==
  <<queue, alive, ref, op, round, it>>

\* round: the round trip under way (push n values at one end of an empty
\* container, then pop n times at the other end) with the values pushed and
\* the values seen at the popping end before each pop
NoRound ==
  [kind |-> "none", phase |-> "idle", pushed |-> <<>>, popped |-> <<>>,
   grew |-> FALSE, wrapped |-> FALSE]

\* it: the iterator in use (queue = "none": no iterator).  stale: its
\* container was changed after the iterator was obtained.  walk, steps, seen:
\* the traversal under way, the increments made and the elements read by it
NoIter ==
  [queue |-> "none", pos |-> 0, stale |-> FALSE, walk |-> "idle", steps |-> 0, seen |-> <<>>]

\* record of a call on container i; live: the buffers allocated and not
\* deallocated, here by this call alone
Call(name, i, arg, val, other, r) ==
  [name |-> name, who |-> i, arg |-> arg, val |-> val, other |-> other, err |-> r.err, ret |-> r.ret,
   allocs |-> r.allocs, deallocs |-> r.deallocs, leaked |-> r.leaked, bad |-> r.bad,
   undone |-> r.undone, live |-> r.allocs - r.deallocs]

\* the record of a call made after the calls so far: live counts the
\* buffers allocated and not deallocated since the start
Account(c) ==
  [c EXCEPT !.live = op.live + c.live]

\* a call on container i with result r; the reference deque follows with
\* newRef when the call returned normally
Apply(name, i, arg, val, r, newRef) ==
  /\ alive[i]
  /\ queue' = [queue EXCEPT ![i] = r.q]
  /\ ref' = [ref EXCEPT ![i] = IF r.err = NoErr THEN newRef ELSE ref[i]]
  /\ op' = Account(Call(name, i, arg, val, "none", r))
  /\ UNCHANGED alive

\* a call on container i that also acts on container j
Apply2(name, i, j, r, newRef, newRefOther) ==
  /\ alive[i] /\ alive[j]
  /\ queue' = [queue EXCEPT ![j] = r.other, ![i] = r.q]
  /\ ref' = IF r.err = NoErr THEN [ref EXCEPT ![j] = newRefOther, ![i] = newRef] ELSE ref
  /\ op' = Account(Call(name, i, 0, "none", j, r))
  /\ UNCHANGED alive

\* The element type T: its constructors either may throw (T = "throwing",
\* not nothrow-move-constructible) or never do (T = "nothrow", such as int).
\* positions at which the relocation of a container of length n can throw
\* (n: nowhere)
FailPoints(T, n) ==
  IF T = "throwing" THEN 0..n ELSE {n}

\* whether the construction of a new element throws
CtorOutcomes(T) ==
  IF T = "throwing" THEN BOOLEAN ELSE {FALSE}

\* insertions are tried while they keep the length within maxLen, and
\* whenever they are rejected for capacity
CanInsert(i, maxLen) ==
  queue[i].mLength < maxLen \/ queue[i].mLength >= queue[i].mCapacity

\* arguments of reserve(): the small ones and one above MIN_ALLOCATE
ReserveArgs(maxReserve) ==
  0..maxReserve \cup {MIN_ALLOCATE + 1}

\* capacity arguments of the constructor: the small ones and one too large
CapArgs(maxCap) ==
  0..maxCap \cup {MAX_CAPACITY + 1}

\* arguments of operator[]
Positions ==
  0..MaxLen \cup {SIZE_MAX}

\* one container constructed with some capacity, the other not yet
Start(maxCap) ==
  /\ queue \in {[i \in Queues |-> IF i = "q1" THEN cqueue(c).q ELSE Members] : c \in 0..maxCap}
  /\ alive = [i \in Queues |-> i = "q1"]
  /\ ref = [i \in Queues |-> <<>>]
  /\ op = Call("cqueue", "q1", capacity(queue["q1"]), "none", "none", Ok(Members, "void"))
  /\ round = NoRound
  /\ it = NoIter

PushBack(i, T, V, maxLen) ==
  /\ CanInsert(i, maxLen)
  /\ \E v \in V, failAt \in FailPoints(T, queue[i].mLength), ctorThrows \in CtorOutcomes(T) :
       Apply("push_back", i, 0, v, push_back(queue[i], v, failAt, ctorThrows), Append(ref[i], v))

PushFront(i, T, V, maxLen) ==
  /\ CanInsert(i, maxLen)
  /\ \E v \in V, failAt \in FailPoints(T, queue[i].mLength), ctorThrows \in CtorOutcomes(T) :
       Apply("push_front", i, 0, v, push_front(queue[i], v, failAt, ctorThrows), <<v>> \o ref[i])

EmplaceBack(i, T, V, maxLen) ==
  /\ CanInsert(i, maxLen)
  /\ \E v \in V, failAt \in FailPoints(T, queue[i].mLength), ctorThrows \in CtorOutcomes(T) :
       Apply("emplace_back", i, 0, v, emplace_back(queue[i], v, failAt, ctorThrows), Append(ref[i], v))

EmplaceFront(i, T, V, maxLen) ==
  /\ CanInsert(i, maxLen)
  /\ \E v \in V, failAt \in FailPoints(T, queue[i].mLength), ctorThrows \in CtorOutcomes(T) :
       Apply("emplace_front", i, 0, v, emplace_front(queue[i], v, failAt, ctorThrows), <<v>> \o ref[i])

PopFront(i) ==
  Apply("pop_front", i, 0, "none", pop_front(queue[i]),
        IF ref[i] = <<>> THEN ref[i] ELSE Tail(ref[i]))

PopBack(i) ==
  Apply("pop_back", i, 0, "none", pop_back(queue[i]),
        IF ref[i] = <<>> THEN ref[i] ELSE SubSeq(ref[i], 1, Len(ref[i]) - 1))

Reserve(i, T, maxReserve) ==
  \E n \in ReserveArgs(maxReserve), failAt \in FailPoints(T, queue[i].mLength) :
    Apply("reserve", i, n, "none", reserve(queue[i], n, failAt), ref[i])

ShrinkToFit(i, T) ==
  \E failAt \in FailPoints(T, queue[i].mLength) :
    Apply("shrink_to_fit", i, 0, "none", shrink_to_fit(queue[i], failAt), ref[i])

Clear(i) ==
  Apply("clear", i, 0, "none", clear(queue[i]), <<>>)

Subscript(i) ==
  \E n \in Positions :
    Apply("subscript", i, n, "none", subscript(queue[i], n), ref[i])

Front(i) ==
  Apply("front", i, 0, "none", front(queue[i]), ref[i])

Back(i) ==
  Apply("back", i, 0, "none", back(queue[i]), ref[i])

Push(i, T, V, maxLen) ==
  /\ CanInsert(i, maxLen)
  /\ \E v \in V, failAt \in FailPoints(T, queue[i].mLength), ctorThrows \in CtorOutcomes(T) :
       Apply("push", i, 0, v, push(queue[i], v, failAt, ctorThrows), Append(ref[i], v))

Emplace(i, T, V, maxLen) ==
  /\ CanInsert(i, maxLen)
  /\ \E v \in V, failAt \in FailPoints(T, queue[i].mLength), ctorThrows \in CtorOutcomes(T) :
       Apply("emplace", i, 0, v, emplace(queue[i], v, failAt, ctorThrows), Append(ref[i], v))

Pop(i) ==
  Apply("pop", i, 0, "none", pop(queue[i]),
        IF ref[i] = <<>> THEN ref[i] ELSE Tail(ref[i]))

\* the calls that change one container
Mutate(i, T, V, maxLen, maxReserve) ==
  \/ PushBack(i, T, V, maxLen)
  \/ PushFront(i, T, V, maxLen)
  \/ EmplaceBack(i, T, V, maxLen)
  \/ EmplaceFront(i, T, V, maxLen)
  \/ PopFront(i)
  \/ PopBack(i)
  \/ Reserve(i, T, maxReserve)
  \/ ShrinkToFit(i, T)
  \/ Clear(i)

\* element access
Access(i) ==
  \/ Subscript(i)
  \/ Front(i)
  \/ Back(i)

Init ==
  Start(MaxCap)

\* one container of throwing elements and every call on it
Next ==
  /\ \/ Mutate("q1", "throwing", Vals, MaxLen, MaxReserve)
     \/ Access("q1")
  /\ UNCHANGED <<round, it>>

Spec ==
  Init /\ [][Next]_vars

(***************************************************************************)
(* Two containers: construction, destruction, copy, move and swap.  The     *)
(* reference deque of a moved-from container, which the reference leaves   *)
(* unspecified, is read back from the container.                           *)
(***************************************************************************)
\* the construction of container i from container j (or from nothing):
\* the object exists afterwards unless the constructor threw
Create(name, i, arg, j, r, newQueue, newRef) ==
  /\ ~alive[i]
  /\ queue' = IF r.err = NoErr THEN newQueue ELSE queue
  /\ alive' = [alive EXCEPT ![i] = (r.err = NoErr)]
  /\ ref' = IF r.err = NoErr THEN newRef ELSE ref
  /\ op' = Account(Call(name, i, arg, "none", j, r))

Construct(i, maxCap) ==
  \E c \in CapArgs(maxCap) :
    Create("cqueue", i, c, "none", cqueue(c), [queue EXCEPT ![i] = cqueue(c).q], ref)

\* ~cqueue(): reset()
Destroy(i) ==
  /\ alive[i]
  /\ queue' = [queue EXCEPT ![i] = Members]
  /\ alive' = [alive EXCEPT ![i] = FALSE]
  /\ ref' = [ref EXCEPT ![i] = <<>>]
  /\ op' = Account(Call("destructor", i, 0, "none", "none", reset(queue[i])))

CopyConstruct(i, j, T) ==
  /\ alive[j]
  /\ \E failAt \in FailPoints(T, queue[j].mLength) :
       Create("copy_construct", i, 0, j, copy_construct(queue[j], failAt),
              [queue EXCEPT ![i] = copy_construct(queue[j], failAt).q],
              [ref EXCEPT ![i] = ref[j]])

MoveConstruct(i, j) ==
  /\ alive[j]
  /\ Create("move_construct", i, 0, j, move_construct(queue[j]),
            [queue EXCEPT ![i] = move_construct(queue[j]).q,
                          ![j] = move_construct(queue[j]).other],
            [ref EXCEPT ![i] = ref[j], ![j] = Content(move_construct(queue[j]).other)])

MoveConstructAlloc(i, j, T) ==
  /\ alive[j]
  /\ \E allocEqual \in BOOLEAN, failAt \in FailPoints(T, queue[j].mLength) :
       Create("move_construct_alloc", i, IF allocEqual THEN 1 ELSE 0, j,
              move_construct_alloc(queue[j], allocEqual, failAt),
              [queue EXCEPT ![i] = move_construct_alloc(queue[j], allocEqual, failAt).q,
                            ![j] = move_construct_alloc(queue[j], allocEqual, failAt).other],
              [ref EXCEPT ![i] = ref[j],
                          ![j] = Content(move_construct_alloc(queue[j], allocEqual, failAt).other)])

CopyAssign(i, j, T) ==
  /\ i # j
  /\ \E failAt \in FailPoints(T, queue[j].mLength) :
       Apply2("copy_assign", i, j, copy_assign(queue[i], queue[j], failAt), ref[j], ref[j])

MoveAssign(i, j) ==
  /\ i # j
  /\ Apply2("move_assign", i, j, move_assign(queue[i], queue[j]), ref[j],
            Content(move_assign(queue[i], queue[j]).other))

Swap(i, j) ==
  Apply2("swap", i, j,
         WithOther(Ok(swap(queue[i], queue[j])[1], "void"), swap(queue[i], queue[j])[2]),
         ref[j], ref[i])

\* element values when two containers interact
PairVals ==
  {"a"}

\* two containers of nothrow elements and every call on them
InitPair ==
  Start(PairMaxCap)

NextPair ==
  /\ UNCHANGED <<round, it>>
  /\ \E i \in Queues :
       \/ Mutate(i, "nothrow", PairVals, PairMaxLen, PairMaxReserve)
       \/ Construct(i, PairMaxCap)
       \/ Destroy(i)
       \/ \E j \in Queues :
            \/ CopyConstruct(i, j, "nothrow")
            \/ MoveConstruct(i, j)
            \/ MoveConstructAlloc(i, j, "nothrow")
            \/ CopyAssign(i, j, "nothrow")
            \/ MoveAssign(i, j)
            \/ Swap(i, j)

SpecPair ==
  InitPair /\ [][NextPair]_vars

(***************************************************************************)
(* Growth: one container of nothrow elements filled far enough to be       *)
(* relocated several times, with the capacities of the growth tests.       *)
(***************************************************************************)
\* capacity arguments: unlimited, and the capacities 5 and 10 of the tests
GrowthCaps ==
  {0, 5, 10}

\* arguments of reserve() that make reserved no multiple of MIN_ALLOCATE
GrowthReserveArgs ==
  {1, 3}

InitGrowth ==
  /\ queue \in {[i \in Queues |-> IF i = "q1" THEN cqueue(c).q ELSE Members] : c \in GrowthCaps}
  /\ alive = [i \in Queues |-> i = "q1"]
  /\ ref = [i \in Queues |-> <<>>]
  /\ op = Call("cqueue", "q1", capacity(queue["q1"]), "none", "none", Ok(Members, "void"))
  /\ round = NoRound
  /\ it = NoIter

GrowthReserve(i) ==
  \E n \in GrowthReserveArgs :
    Apply("reserve", i, n, "none", reserve(queue[i], n, queue[i].mLength), ref[i])

NextGrowth ==
  /\ UNCHANGED <<round, it>>
  /\ \/ PushBack("q1", "nothrow", PairVals, GrowthMaxLen)
     \/ PushFront("q1", "nothrow", PairVals, GrowthMaxLen)
     \/ EmplaceBack("q1", "nothrow", PairVals, GrowthMaxLen)
     \/ EmplaceFront("q1", "nothrow", PairVals, GrowthMaxLen)
     \/ PopFront("q1")
     \/ GrowthReserve("q1")

SpecGrowth ==
  InitGrowth /\ [][NextGrowth]_vars

(***************************************************************************)
(* Round trips: after any calls that leave the container empty, n values   *)
(* are pushed at one end and then popped at the other end, the value at    *)
(* the popping end being read before each pop.                             *)
(***************************************************************************)
\* the calls before the round trip
Prelude ==
  /\ round.phase = "idle"
  /\ Mutate("q1", "nothrow", Vals, RoundMaxLen, MaxReserve)
  /\ UNCHANGED <<round, it>>

\* a round trip starts on an empty container
Begin ==
  /\ round.phase = "idle"
  /\ queue["q1"].mLength = 0
  /\ \E kind \in {"fifo", "lifo"} :
       round' = [NoRound EXCEPT !.kind = kind, !.phase = "push"]
  /\ UNCHANGED <<queue, alive, ref, op, it>>

\* whether the element added by the push lies at a lower slot than the
\* element after (before) it in the container
Wraps(q) ==
  \E p \in 0..(q.mLength - 2) : getUncheckedIndex(q, p + 1) < getUncheckedIndex(q, p)

\* push one more value: at the back (fifo) or at the front (lifo)
RoundPush ==
  /\ UNCHANGED it
  /\ round.phase = "push"
  /\ Len(round.pushed) < RoundMaxLen
  /\ queue["q1"].mLength < queue["q1"].mCapacity
  /\ \E v \in Vals :
       /\ IF round.kind = "fifo"
            THEN Apply("push_back", "q1", 0, v,
                       push_back(queue["q1"], v, queue["q1"].mLength, FALSE), Append(ref["q1"], v))
            ELSE Apply("push_front", "q1", 0, v,
                       push_front(queue["q1"], v, queue["q1"].mLength, FALSE), <<v>> \o ref["q1"])
       /\ round' = [round EXCEPT !.pushed = Append(round.pushed, v),
                                 !.grew = round.grew \/ (Len(round.pushed) > 0 /\ op'.allocs > 0),
                                 !.wrapped = round.wrapped \/ Wraps(queue'["q1"])]

\* read the value at the popping end and pop it: front() and pop_front()
\* (fifo) or back() and pop_back() (lifo)
RoundPop ==
  /\ UNCHANGED it
  /\ round.phase \in {"push", "pop"}
  /\ Len(round.popped) < Len(round.pushed)
  /\ IF round.kind = "fifo"
       THEN /\ Apply("pop_front", "q1", 0, "none", pop_front(queue["q1"]),
                     IF ref["q1"] = <<>> THEN ref["q1"] ELSE Tail(ref["q1"]))
            /\ round' = [round EXCEPT !.phase = "pop",
                                      !.popped = Append(round.popped, front(queue["q1"]).ret)]
       ELSE /\ Apply("pop_back", "q1", 0, "none", pop_back(queue["q1"]),
                     IF ref["q1"] = <<>> THEN ref["q1"]
                     ELSE SubSeq(ref["q1"], 1, Len(ref["q1"]) - 1))
            /\ round' = [round EXCEPT !.phase = "pop",
                                      !.popped = Append(round.popped, back(queue["q1"]).ret)]

NextRound ==
  \/ Prelude
  \/ Begin
  \/ RoundPush
  \/ RoundPop

SpecRound ==
  Init /\ [][NextRound]_vars

(***************************************************************************)
(* Aliases: one container of throwing elements used as a queue through     *)
(* push, emplace and pop, with calls at the opposite ends and reserve in    *)
(* between.                                                                *)
(***************************************************************************)
NextAlias ==
  /\ UNCHANGED <<round, it>>
  /\ \/ Push("q1", "throwing", Vals, MaxLen)
     \/ Emplace("q1", "throwing", Vals, MaxLen)
     \/ Pop("q1")
     \/ PushFront("q1", "throwing", Vals, MaxLen)
     \/ PopBack("q1")
     \/ Reserve("q1", "throwing", MaxReserve)

SpecAlias ==
  Init /\ [][NextAlias]_vars

(***************************************************************************)
(* Repeated shrinking: every call on one container of throwing elements,   *)
(* and shrink_to_fit() called again right after a shrink_to_fit() that      *)
(* returned.  The repeated call is recorded with arg = 1 + the number of    *)
(* buffers the call before it deallocated.                                 *)
(***************************************************************************)
ShrinkToFitAgain(i, T) ==
  /\ op.name = "shrink_to_fit" /\ op.who = i /\ op.err = NoErr
  /\ \E failAt \in FailPoints(T, queue[i].mLength) :
       Apply("shrink_to_fit", i, 1 + op.deallocs, "none", shrink_to_fit(queue[i], failAt), ref[i])

NextShrink ==
  /\ UNCHANGED <<round, it>>
  /\ \/ Mutate("q1", "throwing", Vals, MaxLen, MaxReserve)
     \/ ShrinkToFitAgain("q1", "throwing")

SpecShrink ==
  Init /\ [][NextShrink]_vars

(***************************************************************************)
(* Construction: containers constructed with capacity arguments up to the  *)
(* largest size_type value, destroyed, and filled at the back.              *)
(***************************************************************************)
\* capacity arguments: the small ones, those around max_capacity() and the
\* largest size_type value
CapacityArgs ==
  0..MaxCap \cup {MAX_CAPACITY - 1, MAX_CAPACITY, MAX_CAPACITY + 1, SIZE_MAX}

ConstructAny(i) ==
  \E c \in CapacityArgs :
    Create("cqueue", i, c, "none", cqueue(c), [queue EXCEPT ![i] = cqueue(c).q], ref)

NextConstruct ==
  /\ UNCHANGED <<round, it>>
  /\ \E i \in Queues :
       \/ ConstructAny(i)
       \/ Destroy(i)
       \/ PushBack(i, "nothrow", PairVals, PairMaxLen)
       \/ PopFront(i)

SpecConstruct ==
  Init /\ [][NextConstruct]_vars

(***************************************************************************)
(* Iterators: one container of nothrow elements changed at both ends, an   *)
(* iterator obtained from begin() or end() and moved, read and compared,   *)
(* and the traversal  for (it = begin(); it != end(); ++it) *it.           *)
(***************************************************************************)
\* the iterator in use, as the class holds it
Cursor ==
  [queue |-> it.queue, pos |-> it.pos]

\* an iterator just obtained
Fresh(x) ==
  [NoIter EXCEPT !.queue = x.queue, !.pos = x.pos]

\* the iterator in use after it was moved to x outside a traversal
Moved(x) ==
  [it EXCEPT !.pos = x.pos, !.walk = "idle", !.steps = 0, !.seen = <<>>]

\* offsets of the iterator arithmetic: the small ones and the two extremes
Offsets ==
  (0 - IterMaxLen)..IterMaxLen \cup {DIFF_MIN, DIFF_MAX}

\* a call on the iterator of container i, or one that returns an iterator
IterCall(name, i, arg, r, newIt) ==
  /\ alive[i]
  /\ op' = Account(Call(name, i, arg, "none", "none", r))
  /\ it' = newIt
  /\ UNCHANGED <<queue, alive, ref, round>>

\* the iterator of container i is in use outside a traversal
InUse(i) ==
  it.queue = i /\ it.walk \in {"idle", "done"}

ItBegin(i) ==
  IterCall("begin", i, 0, Ok(queue[i], "void"), Fresh(begin(i, queue[i])))

ItEnd(i) ==
  IterCall("end", i, 0, Ok(queue[i], "void"), Fresh(end(i, queue[i])))

ItIncrement(i) ==
  /\ InUse(i)
  /\ \E sum \in DiffSum(it.pos, 1) :
       IterCall("increment", i, 1, Ok(queue[i], "void"), Moved(increment(queue[i], Cursor, sum)))

ItDecrement(i) ==
  /\ InUse(i)
  /\ \E sum \in DiffSum(it.pos, 0 - 1) :
       IterCall("decrement", i, 0 - 1, Ok(queue[i], "void"), Moved(decrement(queue[i], Cursor, sum)))

ItAddAssign(i) ==
  /\ InUse(i)
  /\ \E n \in Offsets : \E sum \in DiffSum(it.pos, n) :
       IterCall("add_assign", i, n, Ok(queue[i], "void"), Moved(add_assign(queue[i], Cursor, sum)))

ItSubAssign(i) ==
  /\ InUse(i)
  /\ \E n \in Offsets : \E sum \in DiffSum(it.pos, 0 - n) :
       IterCall("sub_assign", i, n, Ok(queue[i], "void"), Moved(sub_assign(queue[i], Cursor, sum)))

\* it = it + n
ItPlus(i) ==
  /\ InUse(i)
  /\ \E n \in Offsets : \E sum \in DiffSum(it.pos, n) :
       IterCall("plus", i, n, Ok(queue[i], "void"), Moved(plus(queue[i], Cursor, sum)))

\* it = it - n
ItMinus(i) ==
  /\ InUse(i)
  /\ \E n \in Offsets : \E sum \in DiffSum(it.pos, 0 - n) :
       IterCall("minus", i, n, Ok(queue[i], "void"), Moved(minus(queue[i], Cursor, sum)))

ItDeref(i) ==
  /\ InUse(i)
  /\ IterCall("deref", i, 0, deref(queue[i], Cursor), it)

ItArrow(i) ==
  /\ InUse(i)
  /\ IterCall("arrow", i, 0, arrow(queue[i], Cursor), it)

ItSubscript(i) ==
  /\ InUse(i)
  /\ \E k \in Offsets : \E sum \in DiffSum(it.pos, k) :
       IterCall("iter_subscript", i, k, iter_subscript(queue[i], Cursor, sum), it)

\* it = begin()
WalkBegin(i) ==
  IterCall("begin", i, 0, Ok(queue[i], "void"),
           [Fresh(begin(i, queue[i])) EXCEPT !.walk = "test"])

\* it != end()
WalkTest(i) ==
  /\ it.queue = i /\ it.walk = "test"
  /\ IterCall("equal", i, 0,
              Ok(queue[i], IF equal(Cursor, end(i, queue[i])) THEN "true" ELSE "false"),
              [it EXCEPT !.walk = IF equal(Cursor, end(i, queue[i])) THEN "done" ELSE "body"])

\* *it; an exception leaves the loop
WalkBody(i) ==
  /\ it.queue = i /\ it.walk = "body"
  /\ IterCall("deref", i, 0, deref(queue[i], Cursor),
              IF deref(queue[i], Cursor).err = NoErr
                THEN [it EXCEPT !.walk = "step", !.seen = Append(it.seen, deref(queue[i], Cursor).ret)]
                ELSE [it EXCEPT !.walk = "idle"])

\* ++it
WalkStep(i) ==
  /\ it.queue = i /\ it.walk = "step"
  /\ it.steps < IterMaxSteps
  /\ \E sum \in DiffSum(it.pos, 1) :
       IterCall("increment", i, 1, Ok(queue[i], "void"),
                [it EXCEPT !.pos = increment(queue[i], Cursor, sum).pos,
                           !.walk = "test", !.steps = it.steps + 1])

\* a call that changes container i makes its iterator stale
IterMutate(i) ==
  /\ \/ PushBack(i, "nothrow", Vals, IterMaxLen)
     \/ PushFront(i, "nothrow", Vals, IterMaxLen)
     \/ PopFront(i)
     \/ PopBack(i)
  /\ it' = [it EXCEPT !.stale = it.stale \/ (it.queue = i /\ queue'[i] # queue[i])]
  /\ UNCHANGED round

NextIter ==
  \/ IterMutate("q1")
  \/ ItBegin("q1")
  \/ ItEnd("q1")
  \/ ItIncrement("q1")
  \/ ItDecrement("q1")
  \/ ItAddAssign("q1")
  \/ ItSubAssign("q1")
  \/ ItPlus("q1")
  \/ ItMinus("q1")
  \/ ItDeref("q1")
  \/ ItArrow("q1")
  \/ ItSubscript("q1")

SpecIter ==
  Start(IterMaxCap) /\ [][NextIter]_vars

\* the container of a traversal is used as a queue
WalkMutate(i) ==
  /\ \/ PushBack(i, "nothrow", Vals, IterMaxLen)
     \/ PopFront(i)
  /\ it' = [it EXCEPT !.stale = it.stale \/ (it.queue = i /\ queue'[i] # queue[i])]
  /\ UNCHANGED round

\* the traversal, and the calls that change the container under it
NextWalk ==
  \/ WalkMutate("q1")
  \/ WalkBegin("q1")
  \/ WalkTest("q1")
  \/ WalkBody("q1")
  \/ WalkStep("q1")

SpecWalk ==
  Start(IterMaxCap) /\ [][NextWalk]_vars

(***************************************************************************)
(* Version 1.0.5: one container of nothrow elements with the pops that     *)
(* return the element, and an iterator incremented and decremented.        *)
(***************************************************************************)
PopFrontV105(i) ==
  Apply("pop_front", i, 0, "none", pop_front_v105(queue[i]),
        IF ref[i] = <<>> THEN ref[i] ELSE Tail(ref[i]))

PopBackV105(i) ==
  Apply("pop_back", i, 0, "none", pop_back_v105(queue[i]),
        IF ref[i] = <<>> THEN ref[i] ELSE SubSeq(ref[i], 1, Len(ref[i]) - 1))

PopV105(i) ==
  Apply("pop", i, 0, "none", pop_v105(queue[i]),
        IF ref[i] = <<>> THEN ref[i] ELSE Tail(ref[i]))

BeginV105(i) ==
  IterCall("begin", i, 0, Ok(queue[i], "void"), Fresh(begin_v105(i, queue[i])))

EndV105(i) ==
  IterCall("end", i, 0, Ok(queue[i], "void"), Fresh(end_v105(i, queue[i])))

IncrementV105(i) ==
  /\ it.queue = i /\ it.pos < V105MaxPos
  /\ \E sum \in DiffSum(it.pos, 1) :
       IterCall("increment", i, 1, Ok(queue[i], "void"), Moved(increment_v105(Cursor, sum)))

DecrementV105(i) ==
  /\ it.queue = i /\ it.pos > 0 - V105MaxPos
  /\ \E sum \in DiffSum(it.pos, 0 - 1) :
       IterCall("decrement", i, 0 - 1, Ok(queue[i], "void"), Moved(decrement_v105(Cursor, sum)))

\* the calls that change the container make its iterator stale
MutateV105(i) ==
  /\ \/ PushBack(i, "nothrow", Vals, MaxLen)
     \/ PushFront(i, "nothrow", Vals, MaxLen)
     \/ Reserve(i, "nothrow", MaxReserve)
     \/ PopFrontV105(i)
     \/ PopBackV105(i)
     \/ PopV105(i)
  /\ it' = [it EXCEPT !.stale = it.stale \/ (it.queue = i /\ queue'[i] # queue[i])]
  /\ UNCHANGED round

NextV105 ==
  \/ MutateV105("q1")
  \/ BeginV105("q1")
  \/ EndV105("q1")
  \/ IncrementV105("q1")
  \/ DecrementV105("q1")

SpecV105 ==
  Init /\ [][NextV105]_vars

(***************************************************************************)
(* The revision of src/cqueue.hpp: one container of nothrow elements used  *)
(* through push, emplace, push_front, pop, pop_back and reserve.            *)
(***************************************************************************)
PushHpp(i, V, maxLen) ==
  /\ CanInsert(i, maxLen)
  /\ \E v \in V :
       Apply("push", i, 0, v, push_hpp(queue[i], v, queue[i].mLength, FALSE), Append(ref[i], v))

EmplaceHpp(i) ==
  /\ CanInsert(i, MaxLen)
  /\ \E v \in Vals :
       Apply("emplace", i, 0, v, emplace_hpp(queue[i], v, queue[i].mLength, FALSE), Append(ref[i], v))

PushFrontHpp(i) ==
  /\ CanInsert(i, MaxLen)
  /\ \E v \in Vals :
       Apply("push_front", i, 0, v, push_front_hpp(queue[i], v, queue[i].mLength, FALSE),
             <<v>> \o ref[i])

\* reserve(n) for n >= 1
ReserveHpp(i) ==
  \E n \in ReserveArgs(MaxReserve) \ {0} :
    Apply("reserve", i, n, "none", reserve_hpp(queue[i], n, queue[i].mLength), ref[i])

NextHpp ==
  /\ UNCHANGED <<round, it>>
  /\ \/ PushHpp("q1", Vals, MaxLen)
     \/ EmplaceHpp("q1")
     \/ PushFrontHpp("q1")
     \/ Pop("q1")
     \/ PopBack("q1")
     \/ ReserveHpp("q1")

SpecHpp ==
  Init /\ [][NextHpp]_vars

MoveConstructHpp(i, j) ==
  /\ alive[j]
  /\ Create("move_construct", i, 0, j, move_construct_hpp(queue[j]),
            [queue EXCEPT ![i] = move_construct_hpp(queue[j]).q,
                          ![j] = move_construct_hpp(queue[j]).other],
            [ref EXCEPT ![i] = ref[j], ![j] = <<>>])

\* the source has a capacity (a source of capacity 0 makes the constructor
\* allocate a buffer of no elements)
MoveConstructAllocHpp(i, j) ==
  /\ alive[j] /\ queue[j].mCapacity > 0
  /\ \E allocEqual \in BOOLEAN :
       Create("move_construct_alloc", i, IF allocEqual THEN 1 ELSE 0, j,
              move_construct_alloc_hpp(queue[j], allocEqual),
              [queue EXCEPT ![i] = move_construct_alloc_hpp(queue[j], allocEqual).q,
                            ![j] = move_construct_alloc_hpp(queue[j], allocEqual).other],
              [ref EXCEPT ![i] = ref[j], ![j] = <<>>])

\* two containers of the revision of src/cqueue.hpp, constructed, moved
\* from, filled and destroyed
NextHppPair ==
  /\ UNCHANGED <<round, it>>
  /\ \E i \in Queues :
       \/ PushHpp(i, PairVals, PairMaxLen)
       \/ Pop(i)
       \/ Construct(i, PairMaxCap)
       \/ Destroy(i)
       \/ \E j \in Queues :
            \/ MoveConstructHpp(i, j)
            \/ MoveConstructAllocHpp(i, j)

SpecHppPair ==
  InitPair /\ [][NextHppPair]_vars

(***************************************************************************)
(* Two containers of elements whose copy constructor may throw, while the  *)
(* move constructor and the construction from arguments do not: the        *)
(* relocation, push_back(T &&) and emplace_back never throw, the copy of a *)
(* container may.  Every allocator is equal to every other.                *)
(***************************************************************************)
\* the number of containers that hold a buffer
Holders(q, a) ==
  Cardinality({i \in Queues : a[i] /\ q[i].mReserved > 0})

CopyMutate(i) ==
  \/ PushBack(i, "nothrow", PairVals, PairMaxLen)
  \/ EmplaceBack(i, "nothrow", PairVals, PairMaxLen)
  \/ PopFront(i)
  \/ Reserve(i, "nothrow", PairMaxReserve)
  \/ ShrinkToFit(i, "nothrow")
  \/ Clear(i)

\* the copies of container j, followed while at most LeakMax buffers are
\* held by no container
CopyThrowing(i, j) ==
  /\ \/ CopyConstruct(i, j, "throwing")
     \/ CopyAssign(i, j, "throwing")
  /\ op'.live - Holders(queue', alive') <= LeakMax

NextCopy ==
  /\ UNCHANGED <<round, it>>
  /\ \E i \in Queues :
       \/ CopyMutate(i)
       \/ Construct(i, PairMaxCap)
       \/ Destroy(i)
       \/ \E j \in Queues :
            \/ CopyThrowing(i, j)
            \/ MoveConstruct(i, j)
            \/ MoveAssign(i, j)
            \/ Swap(i, j)

SpecCopy ==
  InitPair /\ [][NextCopy]_vars

(***************************************************************************)
(* The iterator of src/cqueue.hpp on one container used as a queue.  The   *)
(* arithmetic acts on an iterator whose position is in [-1, size]; one     *)
(* that left this range is replaced by begin() or end().                   *)
(***************************************************************************)
InRange(i) ==
  it.queue = i /\ it.pos \in (0 - 1)..size(queue[i])

ItBeginHpp(i) ==
  IterCall("begin", i, 0, Ok(queue[i], "void"), Fresh(begin_hpp(i, queue[i])))

ItEndHpp(i) ==
  IterCall("end", i, 0, Ok(queue[i], "void"), Fresh(end_hpp(i, queue[i])))

ItIncrementHpp(i) ==
  /\ InRange(i)
  /\ \E sum \in DiffSum(it.pos, 1) :
       IterCall("increment", i, 1, Ok(queue[i], "void"), Moved(increment_hpp(queue[i], Cursor, sum)))

ItDecrementHpp(i) ==
  /\ InRange(i)
  /\ IterCall("decrement", i, 0 - 1, Ok(queue[i], "void"), Moved(decrement_hpp(queue[i], Cursor)))

ItAddAssignHpp(i) ==
  /\ InRange(i)
  /\ \E n \in Offsets : \E sum \in DiffSum(it.pos, n) :
       IterCall("add_assign", i, n, Ok(queue[i], "void"), Moved(add_assign_hpp(queue[i], Cursor, sum)))

ItSubAssignHpp(i) ==
  /\ InRange(i)
  /\ \E n \in Offsets : \E sum \in DiffSum(it.pos, 0 - n) :
       IterCall("sub_assign", i, n, Ok(queue[i], "void"), Moved(sub_assign_hpp(queue[i], Cursor, sum)))

\* a call that changes container i makes its iterator stale
IterMutateHpp(i) ==
  /\ \/ PushHpp(i, Vals, IterMaxLen)
     \/ Pop(i)
  /\ it' = [it EXCEPT !.stale = it.stale \/ (it.queue = i /\ queue'[i] # queue[i])]
  /\ UNCHANGED round

NextIterHpp ==
  \/ IterMutateHpp("q1")
  \/ ItBeginHpp("q1")
  \/ ItEndHpp("q1")
  \/ ItIncrementHpp("q1")
  \/ ItDecrementHpp("q1")
  \/ ItAddAssignHpp("q1")
  \/ ItSubAssignHpp("q1")

SpecIterHpp ==
  Start(IterMaxCap) /\ [][NextIterHpp]_vars

(***************************************************************************)
(* Properties.                                                             *)
(***************************************************************************)
InsertNames ==
  {"push_back", "push_front", "emplace_back", "emplace_front"}

\* the container a call acted on, before and after the call
Before ==
  queue[op'.who]

After ==
  queue'[op'.who]

\* length <= reserved <= capacity, front_index < reserved when reserved > 0,
\* and reserved == 0 implies length == 0 and front_index == 0
StructInv(q) ==
  /\ q.mLength <= q.mReserved
  /\ q.mReserved <= q.mCapacity
  /\ q.mReserved > 0 => q.mFront < q.mReserved
  /\ q.mReserved = 0 => q.mLength = 0 /\ q.mFront = 0

\* C1: in every state reached by construction, insertion, removal, reserve,
\* shrink_to_fit, clear, swap, copy and move, every container satisfies the
\* structural invariant.
C1_StructuralInvariant ==
  \A i \in Queues : alive[i] => StructInv(queue[i])

\* a full container whose content wraps around the buffer end, received by
\* swap from the other container
C1_Witness ==
  /\ op.name = "swap" /\ op.who # op.other
  /\ queue[op.who].mFront > 0
  /\ queue[op.who].mLength = queue[op.who].mReserved
  /\ queue[op.who].mCapacity # queue[op.other].mCapacity

\* C2: after any sequence of calls applied to the container and to a
\* reference deque, size() is the reference length and queue[p], read at
\* slot (front_index + p) mod reserved, is the reference's p-th element.
C2_DifferentialEquivalence ==
  \A i \in Queues : alive[i] =>
    /\ size(queue[i]) = Len(ref[i])
    /\ \A p \in 0..(Len(ref[i]) - 1) :
         /\ subscript(queue[i], p).err = NoErr
         /\ subscript(queue[i], p).ret = ref[i][p + 1]
         /\ queue[i].mData[(queue[i].mFront + p) % queue[i].mReserved] = ref[i][p + 1]

\* a content of two different values that wraps around the buffer end
C2_Witness ==
  /\ queue["q1"].mLength >= 2
  /\ queue["q1"].mFront + queue["q1"].mLength > queue["q1"].mReserved
  /\ ref["q1"][1] # ref["q1"][2]
  /\ op.name = "push_front"

\* a call raises capacity-exceeded where C3 says so, and then changes nothing
CapacityExceededStep ==
  /\ (op'.name \in InsertNames /\ Before.mLength = Before.mCapacity)
       => op'.err = LengthError
  /\ (op'.name = "reserve" /\ op'.arg > Before.mCapacity) => op'.err = LengthError
  /\ op'.err = LengthError => (queue' = queue /\ ref' = ref)

\* C3: an insertion at length == capacity and a reserve(n) with
\* n > capacity raise the capacity-exceeded error, and a call that raises it
\* leaves the container exactly as it was.
C3_CapacityExceededUnmodified ==
  [][CapacityExceededStep]_vars

\* an insertion rejected on a full container whose content wraps
C3_Witness ==
  /\ op.name = "emplace_front" /\ op.err = LengthError
  /\ queue[op.who].mLength = queue[op.who].mCapacity
  /\ queue[op.who].mFront > 0

\* C4: values pushed at the back of an empty container and then popped
\* from the front leave in the order they were pushed: front() before the
\* i-th pop is the i-th value pushed.
C4_FifoOrder ==
  round.kind = "fifo" =>
    /\ Len(round.popped) <= Len(round.pushed)
    /\ \A k \in 1..Len(round.popped) : round.popped[k] = round.pushed[k]
    /\ queue["q1"].mLength = Len(round.pushed) - Len(round.popped)

\* three values, not all equal, pushed with a wrap around the buffer end
\* and then a relocation, and all popped
C4_Witness ==
  /\ round.kind = "fifo" /\ round.phase = "pop"
  /\ Len(round.pushed) >= 3 /\ Len(round.popped) = Len(round.pushed)
  /\ round.pushed[1] # round.pushed[2]
  /\ round.wrapped /\ round.grew

\* C5 as stated: values pushed at the front of an empty container and then
\* popped from the back leave in reverse order of insertion: back() before
\* the i-th pop_back is the (n+1-i)-th value pushed.
C5_ReverseOrder ==
  round.kind = "lifo" =>
    \A k \in 1..Len(round.popped) :
      round.popped[k] = round.pushed[Len(round.pushed) + 1 - k]

\* C5 as amended: values pushed at the front of an empty container and then
\* popped from the back leave in the order of insertion: back() before the
\* i-th pop_back is the i-th value pushed.
C5_InsertionOrder ==
  round.kind = "lifo" =>
    /\ Len(round.popped) <= Len(round.pushed)
    /\ \A k \in 1..Len(round.popped) : round.popped[k] = round.pushed[k]
    /\ queue["q1"].mLength = Len(round.pushed) - Len(round.popped)

\* three values, the first and the last different, pushed at the front
\* with a relocation and all popped from the back
C5_Witness ==
  /\ round.kind = "lifo" /\ round.phase = "pop"
  /\ Len(round.pushed) >= 3 /\ Len(round.popped) = Len(round.pushed)
  /\ round.pushed[1] # round.pushed[3]
  /\ round.grew

\* a failed relocation undoes what it did and changes nothing
RelocationFailureStep ==
  op'.err = RelocationError =>
    /\ queue' = queue /\ ref' = ref
    /\ op'.leaked = 0 /\ ~op'.bad
    /\ op'.allocs = 1 /\ op'.deallocs = 1

\* C6: when the copy of an element throws during a relocation, the elements
\* constructed in the new buffer, and only these, are destroyed, the new
\* buffer is deallocated, and the container is as before the call.
C6_RelocationStrongGuarantee ==
  [][RelocationFailureStep]_vars

\* a relocation of a content that does not start at slot 0, failing at its
\* third element
C6_Witness ==
  /\ op.err = RelocationError /\ op.undone >= 2
  /\ queue[op.who].mFront > 0

\* min(capacity, r * 2^k) with r = reserved, or min(capacity, 8) when
\* reserved is 0, and k the least number with r * 2^k >= n
ExpectedReserved(q, n) ==
  LET r == IF q.mReserved > 0 THEN q.mReserved ELSE Min(q.mCapacity, 8)
      k == CHOOSE k \in 0..SizeBits :
             r * 2^k >= n /\ \A j \in 0..(k - 1) : r * 2^j < n
  IN Min(q.mCapacity, r * 2^k)

\* an insertion that has to grow the buffer sets reserved as C7 says
GrowthStep ==
  (op'.name \in InsertNames /\ Before.mReserved < Before.mLength + 1
     /\ Before.mLength + 1 <= Before.mCapacity) =>
    /\ After.mReserved = ExpectedReserved(Before, Before.mLength + 1)
    /\ (capacity(Before) = 0 /\ Before.mReserved = 0) => After.mReserved = 8
    /\ (capacity(Before) = 0 /\ Before.mReserved = 8) => After.mReserved = 16
    /\ (capacity(Before) = 0 /\ Before.mReserved = 16) => After.mReserved = 32
    /\ (capacity(Before) = 5 /\ Before.mReserved = 0) => After.mReserved = 5
    /\ (capacity(Before) = 10 /\ Before.mLength = 8 /\ Before.mReserved = 8)
         => After.mReserved = 10

\* C7: an insertion that needs room for n elements with
\* reserved < n <= capacity sets reserved to min(capacity, r * 2^k); with
\* unlimited capacity reserved goes 0, 8, 16, 32, with capacity 5 the first
\* push gives 5, with capacity 10 the 9th push gives 10.
C7_GrowthLength ==
  [][GrowthStep]_vars

\* the 17th push at the back of a container of unlimited capacity
C7_Witness ==
  /\ op.name = "push_back" /\ op.allocs = 1
  /\ capacity(queue["q1"]) = 0
  /\ queue["q1"].mLength = 17 /\ queue["q1"].mReserved = 32

\* reserved does not decrease in a call other than shrink_to_fit
MonotoneStep ==
  op'.name \in InsertNames \cup {"pop_front", "pop_back", "reserve", "clear"} =>
    After.mReserved >= Before.mReserved

\* C8: no insertion, removal, reserve or clear makes reserved smaller,
\* whether the call succeeds or fails.
C8_ReservedMonotone ==
  [][MonotoneStep]_vars

\* a reserve(n) with 0 < n < reserved on a non-empty container
C8_Witness ==
  /\ op.name = "reserve" /\ op.err = NoErr
  /\ 0 < op.arg /\ op.arg < queue[op.who].mReserved
  /\ queue[op.who].mLength > 0 /\ queue[op.who].mLength <= op.arg

\* C9: operator[](p) raises out-of-range exactly when p >= length and
\* otherwise returns the element at slot (front_index + p) mod reserved;
\* front() and back() raise out-of-range on an empty container; no access
\* reads an unconstructed slot.
C9_CheckedAccess ==
  LET q == queue[op.who]
  IN /\ op.name = "subscript" =>
          /\ (op.err = OutOfRange) <=> (op.arg >= q.mLength)
          /\ op.arg < q.mLength =>
               op.err = NoErr /\ op.ret = q.mData[(q.mFront + op.arg) % q.mReserved]
     /\ (op.name \in {"front", "back"} /\ q.mLength = 0) => op.err = OutOfRange
     /\ (op.name = "front" /\ q.mLength > 0) =>
          op.err = NoErr /\ op.ret = q.mData[q.mFront]
     /\ (op.name = "back" /\ q.mLength > 0) =>
          op.err = NoErr /\ op.ret = q.mData[(q.mFront + q.mLength - 1) % q.mReserved]
     /\ (op.name \in {"subscript", "front", "back"} /\ op.err = NoErr) => op.ret \in Vals

\* back() on a container that is empty but owns a buffer
C9_Witness ==
  /\ op.name = "back" /\ op.err = OutOfRange
  /\ queue[op.who].mLength = 0 /\ queue[op.who].mReserved > 0

\* a pop tells whether it erased an element
BooleanPopStep ==
  op'.name \in {"pop_front", "pop_back"} =>
    /\ op'.err = NoErr
    /\ IF Before.mLength = 0
         THEN op'.ret = "false" /\ After = Before
         ELSE op'.ret = "true" /\ After.mLength = Before.mLength - 1

\* C10: pop_front() and pop_back() on an empty container return false,
\* raise nothing and leave the container unchanged; on a non-empty
\* container they return true and decrease length by exactly 1.
C10_BooleanPop ==
  [][BooleanPopStep]_vars

\* pop_back() on a container emptied by pops, its front not at slot 0
C10_Witness ==
  /\ op.name = "pop_back" /\ op.ret = "false"
  /\ queue[op.who].mReserved > 0 /\ queue[op.who].mFront > 0

\* the record and the container that the call named target leaves when it
\* is made in place of the alias call just made, for some outcome of the
\* element's constructors
SameAs(name, r) ==
  /\ op' = Account(Call(name, op'.who, 0, op'.val, "none", r))
  /\ After = r.q

AliasStep ==
  /\ op'.name = "push" =>
       /\ \E failAt \in 0..Before.mLength, ctorThrows \in BOOLEAN :
            SameAs("push", push_back(Before, op'.val, failAt, ctorThrows))
       /\ op'.err = NoErr => Content(After) = Append(Content(Before), op'.val)
  /\ op'.name = "emplace" =>
       /\ \E failAt \in 0..Before.mLength, ctorThrows \in BOOLEAN :
            SameAs("emplace", emplace_back(Before, op'.val, failAt, ctorThrows))
       /\ op'.err = NoErr => Content(After) = Append(Content(Before), op'.val)
  /\ op'.name = "pop" =>
       /\ SameAs("pop", pop_front(Before))
       /\ op'.ret = "true" => Content(After) = Tail(Content(Before))

\* C11: push(v) leaves the state and result of push_back(v), emplace(v)
\* those of emplace_back(v) and pop() those of pop_front(): push and emplace
\* add at the end, pop removes the first element.
C11_AliasMapping ==
  [][AliasStep]_vars

\* push(v) returned on a container whose front is not slot 0 and whose
\* first element differs from v: v is the last element
C11_Witness ==
  /\ op.name = "push" /\ op.err = NoErr
  /\ queue[op.who].mLength >= 2 /\ queue[op.who].mFront > 0
  /\ Content(queue[op.who])[queue[op.who].mLength] = op.val
  /\ Content(queue[op.who])[1] # op.val

\* the slot before the front, around the buffer end, or slot 0 when empty
FrontSlot(q) ==
  IF q.mLength = 0 THEN 0 ELSE (IF q.mFront = 0 THEN q.mReserved ELSE q.mFront) - 1

PushFrontStep ==
  op'.name \in {"push_front", "emplace_front"} =>
    /\ Before.mLength < Before.mCapacity => op'.err # LengthError
    /\ op'.err = NoErr =>
         /\ Before.mLength < Before.mCapacity
         /\ After.mLength = Before.mLength + 1
         /\ Content(After) = <<op'.val>> \o Content(Before)
         /\ op'.allocs = 0 =>
              /\ Before.mData[FrontSlot(Before)] = Free
              /\ After.mFront = FrontSlot(Before)
              /\ After.mData = [Before.mData EXCEPT ![FrontSlot(Before)] = op'.val]
              /\ After.mReserved = Before.mReserved

\* C12: push_front(v) and emplace_front(v) on a container with length below
\* capacity make v the element at position 0, move every element from
\* position p to p + 1 and add 1 to length; without growth v is constructed
\* in slot (front_index == 0 ? reserved : front_index) - 1, or slot 0 when
\* the container is empty, and that slot becomes front_index.
C12_PushFrontEffect ==
  [][PushFrontStep]_vars

\* a push_front without growth onto elements whose front was slot 0: the
\* new front is the last slot of the buffer
C12_Witness ==
  /\ op.name = "push_front" /\ op.err = NoErr /\ op.allocs = 0
  /\ queue[op.who].mLength >= 2
  /\ queue[op.who].mFront = queue[op.who].mReserved - 1
  /\ Content(queue[op.who])[1] # Content(queue[op.who])[2]

ReserveNoopStep ==
  (op'.name = "reserve" /\ op'.arg <= Before.mReserved) =>
    /\ op'.err = NoErr
    /\ op'.allocs = 0 /\ op'.deallocs = 0
    /\ After = Before

\* C13: reserve(n) with n <= reserved, n == reserved included, allocates
\* nothing and leaves the buffer, reserved, front_index, length and the
\* slot of every element unchanged.
C13_ReserveNoop ==
  [][ReserveNoopStep]_vars

\* reserve(reserved) on a container with elements whose front is not slot 0
C13_Witness ==
  /\ op.name = "reserve" /\ op.arg = queue[op.who].mReserved
  /\ queue[op.who].mLength >= 1 /\ queue[op.who].mFront > 0

ReserveExactStep ==
  (/\ op'.name = "reserve"
   /\ Before.mReserved < op'.arg
   /\ op'.arg <= Before.mCapacity) =>
    /\ op'.err \in {NoErr, RelocationError}
    /\ op'.err = RelocationError => op'.undone < Before.mLength
    /\ op'.err = NoErr =>
         /\ After.mReserved = op'.arg
         /\ After.mFront = 0
         /\ After.mLength = Before.mLength
         /\ After.mCapacity = Before.mCapacity
         /\ Content(After) = Content(Before)
         /\ op'.allocs = 1

\* C14: reserve(n) with reserved < n <= capacity leaves reserved == n, not
\* the doubled growth length, keeps length and the element sequence and
\* sets front_index to 0; it ends otherwise only when the copy of an
\* element throws during the relocation.
C14_ReserveExact ==
  [][ReserveExactStep]_vars

\* reserve(3) on a container of unlimited capacity holding two different
\* elements: insertions would have grown the buffer to 4 or 8
C14_Witness ==
  /\ op.name = "reserve" /\ op.err = NoErr /\ op.allocs = 1
  /\ op.arg = 3 /\ queue[op.who].mReserved = 3
  /\ queue[op.who].mCapacity = MAX_CAPACITY
  /\ queue[op.who].mLength = 2
  /\ Content(queue[op.who])[1] # Content(queue[op.who])[2]

ShrinkStep ==
  op'.name = "shrink_to_fit" =>
    /\ op'.err \in {NoErr, RelocationError}
    /\ After.mLength = Before.mLength
    /\ After.mCapacity = Before.mCapacity
    /\ Content(After) = Content(Before)
    /\ After.mReserved <= Before.mReserved
    /\ IF Before.mReserved > 0 /\ Before.mLength = 0
         THEN /\ op'.err = NoErr
              /\ After.mReserved = 0 /\ After.mData = NoBuffer
              /\ op'.allocs = 0 /\ op'.deallocs = 1
         ELSE IF Before.mLength = Before.mReserved \/ Before.mReserved <= MIN_ALLOCATE
           THEN /\ op'.err = NoErr
                /\ After = Before
                /\ op'.allocs = 0 /\ op'.deallocs = 0
           ELSE /\ op'.err = NoErr =>
                     /\ After.mReserved = Before.mLength
                     /\ After.mFront = 0
                /\ op'.err = RelocationError =>
                     /\ After = Before
                     /\ op'.undone < Before.mLength

\* C15: shrink_to_fit() releases all storage (reserved 0) when reserved > 0
\* and length == 0; otherwise changes nothing when length == reserved or
\* reserved <= 8; otherwise makes reserved equal to length with front_index
\* 0, unless the copy of an element throws during the relocation; length,
\* capacity and the element sequence never change and reserved never grows.
C15_ShrinkOutcome ==
  [][ShrinkStep]_vars

\* a buffer larger than MIN_ALLOCATE relocated down to its two different
\* elements
C15_Witness ==
  /\ op.name = "shrink_to_fit" /\ op.err = NoErr /\ op.allocs = 1
  /\ queue[op.who].mReserved = 2 /\ queue[op.who].mLength = 2
  /\ Content(queue[op.who])[1] # Content(queue[op.who])[2]

ShrinkAgainStep ==
  (/\ op.name = "shrink_to_fit" /\ op.err = NoErr
   /\ op'.name = "shrink_to_fit" /\ op'.who = op.who) =>
    /\ op'.err = NoErr
    /\ After.mReserved = Before.mReserved
    /\ After.mLength = Before.mLength
    /\ Content(After) = Content(Before)
    /\ After = Before
    /\ op'.allocs = 0 /\ op'.deallocs = 0

\* C16: shrink_to_fit() called again right after a shrink_to_fit() leaves
\* reserved, length and the element sequence as the first call left them.
C16_ShrinkIdempotent ==
  [][ShrinkAgainStep]_vars

\* the second of two calls, the first of which relocated a buffer larger
\* than MIN_ALLOCATE down to its two different elements
C16_Witness ==
  /\ op.name = "shrink_to_fit" /\ op.arg = 2 /\ op.err = NoErr
  /\ queue[op.who].mReserved = 2 /\ queue[op.who].mLength = 2
  /\ Content(queue[op.who])[1] # Content(queue[op.who])[2]

ClearStep ==
  op'.name = "clear" =>
    /\ op'.err = NoErr
    /\ Live(Before.mData) = Before.mLength
    /\ Live(After.mData) = 0
    /\ DOMAIN After.mData = DOMAIN Before.mData
    /\ After.mLength = 0 /\ After.mFront = 0
    /\ After.mReserved = Before.mReserved
    /\ After.mCapacity = Before.mCapacity
    /\ op'.allocs = 0 /\ op'.deallocs = 0

\* C17: clear() destroys the length live elements, all there are, sets
\* length and front_index to 0 and keeps reserved, the allocated buffer
\* and capacity: nothing is deallocated.
C17_ClearEffect ==
  [][ClearStep]_vars

\* clear() on a container that keeps a buffer of several slots
C17_Witness ==
  /\ op.name = "clear"
  /\ queue[op.who].mReserved >= 2 /\ queue[op.who].mCapacity > queue[op.who].mReserved
  /\ ref[op.who] = <<>>

\* the calls on elements and storage
ElementNames ==
  InsertNames \cup {"pop_front", "pop_back", "reserve", "shrink_to_fit", "clear"}

\* the calls that hand a container the members of another one
TransplantNames ==
  {"copy_assign", "move_assign", "swap", "move_construct", "move_construct_alloc"}

CapacityStep ==
  /\ op'.name \in ElementNames =>
       \A i \in Queues : queue'[i].mCapacity = queue[i].mCapacity
  /\ \A i \in Queues :
       (alive[i] /\ alive'[i] /\ queue'[i].mCapacity # queue[i].mCapacity) =>
         op'.name \in TransplantNames
  /\ (op'.name \in TransplantNames /\ op'.err = NoErr) =>
       After.mCapacity = queue[op'.other].mCapacity
  /\ op'.name \in {"move_assign", "swap"} =>
       queue'[op'.other].mCapacity = Before.mCapacity
  /\ op'.name = "copy_assign" =>
       queue'[op'.other].mCapacity = queue[op'.other].mCapacity

\* C18: no push_back, push_front, emplace, pop_front, pop_back, reserve,
\* shrink_to_fit or clear call, returning or throwing, changes the capacity
\* of a container; only copy assignment, move and swap change it, and they
\* set it to the capacity of the other container.
C18_CapacityImmutable ==
  [][CapacityStep]_vars

\* a swap of two containers of different capacities, both holding elements
C18_Witness ==
  /\ op.name = "swap" /\ op.other \in Queues
  /\ queue[op.who].mCapacity # queue[op.other].mCapacity
  /\ queue[op.who].mLength >= 1 /\ queue[op.other].mLength >= 1

\* C19: a container constructed with capacity argument c, 0 <= c <=
\* max_capacity(), reports capacity() == c, 0 denoting unlimited; an
\* argument above max_capacity() is rejected with a length error.
C19_CapacityRoundTrip ==
  op.name = "cqueue" =>
    IF op.arg > MAX_CAPACITY
      THEN op.err = LengthError /\ ~alive[op.who]
      ELSE /\ op.err = NoErr /\ alive[op.who]
           /\ capacity(queue[op.who]) = op.arg

CopyStep ==
  /\ (op'.name \in {"copy_construct", "copy_assign"} /\ op'.err = NoErr) =>
       /\ capacity(After) = capacity(queue[op'.other])
       /\ size(After) = size(queue[op'.other])
       /\ Content(After) = Content(queue[op'.other])
       /\ queue'[op'.other] = queue[op'.other]
       /\ size(After) > 0 => op'.allocs = 1
  /\ op'.name \in ElementNames =>
       \A j \in Queues \ {op'.who} : queue'[j] = queue[j]
  /\ Holders(queue', alive') <= op'.live

\* C20: after copy construction or copy assignment the destination has the
\* capacity, size and element sequence of the source and the source is
\* unchanged; the destination's buffer is one allocated for it (no two
\* containers hold the same buffer), and a later call on one of the two
\* containers leaves length, reserved, front_index and elements of the
\* other unchanged.
C20_CopyIndependent ==
  [][CopyStep]_vars

\* a copy of a container whose two elements start at another slot than the
\* copy's: two buffers are allocated
C20_Witness ==
  /\ op.name \in {"copy_construct", "copy_assign"} /\ op.err = NoErr
  /\ op.other \in Queues /\ op.other # op.who
  /\ queue[op.who].mLength = 2
  /\ queue[op.other].mFront # queue[op.who].mFront
  /\ op.live = 2

\* the move constructors
MoveConstructNames ==
  {"move_construct", "move_construct_alloc"}

\* whether the call just made took the buffer of the other container:
\* the plain move constructor, or the one given an equal allocator
TookBuffer ==
  op'.name = "move_construct" \/ op'.arg = 1

MoveConstructStep ==
  (op'.name \in MoveConstructNames /\ op'.err = NoErr) =>
    /\ capacity(After) = capacity(queue[op'.other])
    /\ size(After) = size(queue[op'.other])
    /\ Content(After) = Content(queue[op'.other])
    /\ TookBuffer => After = queue[op'.other] /\ op'.allocs = 0
    /\ (~TookBuffer /\ size(After) > 0) => op'.allocs = 1

\* C21: after move construction, plain or with an allocator argument equal
\* or not equal to the source's, the destination has the capacity, size
\* and element sequence the source had.
C21_MoveConstructTransfers ==
  [][MoveConstructStep]_vars

\* move construction with a non-equal allocator from a container with two
\* elements
C21_Witness ==
  /\ op.name = "move_construct_alloc" /\ op.arg = 0 /\ op.err = NoErr
  /\ queue[op.who].mLength = 2

\* C22: after move construction, plain or with an allocator argument equal
\* or not equal to the source's, the source is valid and has size() == 0.
C22_MoveConstructSourceEmpty ==
  (op.name \in MoveConstructNames /\ op.err = NoErr) =>
    /\ StructInv(queue[op.other])
    /\ size(queue[op.other]) = 0

MoveAssignStep ==
  op'.name = "move_assign" =>
    /\ op'.err = NoErr
    /\ capacity(After) = capacity(queue[op'.other])
    /\ size(After) = size(queue[op'.other])
    /\ Content(After) = Content(queue[op'.other])
    /\ capacity(queue'[op'.other]) = capacity(Before)
    /\ size(queue'[op'.other]) = size(Before)
    /\ Content(queue'[op'.other]) = Content(Before)
    /\ op'.allocs = 0 /\ op'.deallocs = 0

\* C23: after q2 = std::move(q1), q2 has the capacity, size and element
\* sequence q1 had and q1 has those q2 had.
C23_MoveAssignExchanges ==
  [][MoveAssignStep]_vars

\* q2 = std::move(q1) with q2 = [a] of capacity 1 and q1 = [a, a] of
\* unlimited capacity
C23_Witness ==
  /\ op.name = "move_assign" /\ op.other \in Queues
  /\ size(queue[op.who]) = 2 /\ capacity(queue[op.who]) = 0
  /\ size(queue[op.other]) = 1 /\ capacity(queue[op.other]) = 1

MoveAssignSourceEmptyStep ==
  (op'.name = "move_assign" /\ size(Before) >= 1) =>
    size(queue'[op'.other]) = 0

MoveAssignSourceStep ==
  op'.name = "move_assign" =>
    /\ size(queue'[op'.other]) = size(Before)
    /\ Content(queue'[op'.other]) = Content(Before)
    /\ size(queue'[op'.other]) = 0 <=> size(Before) = 0

SwapStep ==
  op'.name = "swap" =>
    /\ op'.err = NoErr
    /\ After = queue[op'.other]
    /\ queue'[op'.other] = Before
    /\ op'.allocs = 0 /\ op'.deallocs = 0
    /\ swap(After, queue'[op'.other]) = <<Before, queue[op'.other]>>
    /\ op'.other = op'.who => After = Before

\* C25: after a.swap(b), a has the capacity, reserved, size, front_index
\* and elements b had, each element in the slot it was in, and b has those
\* of a, with nothing allocated or deallocated; a second a.swap(b) restores
\* both containers; a.swap(a) leaves a unchanged.
C25_SwapExchanges ==
  [][SwapStep]_vars

\* a swap of two containers that differ in size and front index
C25_Witness ==
  /\ op.name = "swap" /\ op.other \in Queues /\ op.other # op.who
  /\ size(queue[op.who]) >= 1 /\ size(queue[op.other]) > size(queue[op.who])
  /\ queue[op.who].mFront # queue[op.other].mFront

\* C26: on a container that was not changed since the iterator was obtained,
\* an iterator obtained from begin() or end() and moved by ++, --, += n,
\* -= n, + n, - n with any signed n has its position in -1 .. length;
\* ++ at position length leaves it at length, -- at -1 leaves it at -1
ClampStep ==
  (it'.queue # "none" /\ ~it'.stale) =>
    /\ it'.pos >= 0 - 1 /\ it'.pos <= size(queue'[it'.queue])
    /\ (op'.name = "increment" /\ it.pos = size(queue[it.queue])) => it'.pos = it.pos
    /\ (op'.name = "decrement" /\ it.pos = 0 - 1) => it'.pos = it.pos

C26_IteratorClamped ==
  [][ClampStep]_vars

C26_Witness ==
  /\ op.name = "add_assign" /\ op.arg = DIFF_MAX /\ ~it.stale
  /\ size(queue[it.queue]) = 2 /\ it.pos = 2

\* C27: for an iterator at position pos on a container of length L, *it and
\* it-> raise out-of-range when pos = -1 or pos = L (and give queue[pos]
\* otherwise), and it[k] returns queue[pos + k] when 0 <= pos + k < L and
\* raises out-of-range otherwise
IterAccessStep ==
  LET L == size(queue[it.queue])
      elems == ref[it.queue]
  IN /\ op'.name \in {"deref", "arrow"} =>
          IF it.pos = 0 - 1 \/ it.pos = L
            THEN op'.err = OutOfRange
            ELSE (0 <= it.pos /\ it.pos < L) => (op'.err = NoErr /\ op'.ret = elems[it.pos + 1])
     /\ op'.name = "iter_subscript" =>
          IF 0 <= it.pos + op'.arg /\ it.pos + op'.arg < L
            THEN op'.err = NoErr /\ op'.ret = elems[it.pos + op'.arg + 1]
            ELSE op'.err = OutOfRange

C27_IteratorAccessChecked ==
  [][IterAccessStep]_vars

C27_Witness ==
  /\ op.name = "iter_subscript" /\ op.arg = 0 - 1 /\ it.pos = 1
  /\ ref[it.queue] = <<"a", "b", "a">> /\ op.ret = "a" /\ queue[it.queue].mFront > 0

\* C28: on a container of length L that is not changed during the traversal,
\* incrementing from begin() until the iterator equals end() takes exactly L
\* increments and reads queue[0], ..., queue[L-1] in that order, without an
\* exception; begin() == end() exactly when the container is empty
TraversalStep ==
  /\ \A i \in Queues :
       alive'[i] => (equal(begin(i, queue'[i]), end(i, queue'[i])) <=> size(queue'[i]) = 0)
  /\ (it'.queue # "none" /\ ~it'.stale) =>
       LET L == size(queue'[it'.queue])
           elems == ref'[it'.queue]
       IN /\ it'.steps <= L
          /\ Len(it'.seen) <= L
          /\ it'.seen = SubSeq(elems, 1, Len(it'.seen))
          /\ Len(it'.seen) = it'.steps + (IF it'.walk = "step" THEN 1 ELSE 0)
          /\ op'.name = "deref" => op'.err = NoErr
          /\ it'.walk = "done" => (it'.steps = L /\ it'.seen = elems)
          /\ (op'.name = "equal" /\ it'.steps = L) => it'.walk = "done"

C28_TraversalVisitsAll ==
  [][TraversalStep]_vars

C28_Witness ==
  /\ it.walk = "done" /\ ~it.stale /\ it.steps = 3
  /\ it.seen = <<"a", "b", "a">> /\ queue[it.queue].mFront > 0

\* C29: in version 1.0.5, incrementing an iterator that is at end() leaves
\* it equal to end(), and decrementing an iterator at the before-first
\* position (-1) leaves it unchanged
SaturationV105Step ==
  /\ (op'.name = "increment" /\ equal(Cursor, end_v105(it.queue, queue[it.queue]))) =>
       equal([queue |-> it'.queue, pos |-> it'.pos], end_v105(it'.queue, queue'[it'.queue]))
  /\ (op'.name = "decrement" /\ it.pos = 0 - 1) => it'.pos = it.pos

C29_SaturationV105 ==
  [][SaturationV105Step]_vars

\* C30: in version 1.0.5, pop_front(), pop() and pop_back() on an empty
\* container raise out-of-range and leave length, reserved, front index and
\* capacity unchanged; on a non-empty container they return the element
\* that was at position 0 (pop_front, pop) or length - 1 (pop_back) and
\* decrease the length by 1
ValuePopStep ==
  op'.name \in {"pop_front", "pop", "pop_back"} =>
    IF Before.mLength = 0
      THEN /\ op'.err = OutOfRange
           /\ After.mLength = Before.mLength /\ After.mReserved = Before.mReserved
           /\ After.mFront = Before.mFront /\ After.mCapacity = Before.mCapacity
      ELSE /\ op'.err = NoErr
           /\ op'.ret = IF op'.name = "pop_back" THEN ref[op'.who][Before.mLength]
                                                ELSE ref[op'.who][1]
           /\ After.mLength = Before.mLength - 1
           /\ Content(After) = ref'[op'.who]

Slots(q) ==
  {getUncheckedIndex(q, p) : p \in 0..(q.mLength - 1)}

\* the slots of the buffer of q that hold a constructed element
Constructed(q) ==
  {k \in DOMAIN q.mData : q.mData[k] # Free}

\* C31: in every state the slots holding a constructed element are exactly
\* the slots (front_index + p) mod reserved for p < length, pairwise
\* distinct; no call constructs into a slot that holds a live element,
\* destroys a slot that holds none, or gives up a buffer with live elements
LifetimeStep ==
  /\ Constructed(After) = Slots(After)
  /\ Cardinality(Slots(After)) = After.mLength
  /\ ~op'.bad
  /\ op'.leaked = 0
  /\ (op'.name \in InsertNames /\ op'.err = NoErr) =>
       Cardinality(Constructed(After)) = Cardinality(Constructed(Before)) + 1
  /\ (op'.name \in {"pop_front", "pop_back"} /\ op'.ret = "true") =>
       Cardinality(Constructed(After)) = Cardinality(Constructed(Before)) - 1

C31_ElementLifetime ==
  [][LifetimeStep]_vars

C31_Witness ==
  /\ op.name = "push_back" /\ op.err = NoErr /\ op.allocs = 0
  /\ queue[op.who].mFront > 0 /\ queue[op.who].mLength = 2
  /\ queue[op.who].mLength < queue[op.who].mReserved
  /\ 0 \in Slots(queue[op.who]) /\ (queue[op.who].mReserved - 1) \in Slots(queue[op.who])

\* container a is container b relocated: front index 0, the element of
\* position p at slot p, no other slot constructed, the length unchanged
Relocated(b, a) ==
  /\ a.mFront = 0
  /\ a.mLength = b.mLength
  /\ \A p \in 0..(b.mLength - 1) : a.mData[p] = b.mData[getUncheckedIndex(b, p)]
  /\ \A k \in DOMAIN a.mData : k >= b.mLength => a.mData[k] = Free

\* C32: a successful relocation (growth on insertion, reserve, shrink_to_fit
\* to a non-zero size), whatever the front index was and whether or not the
\* elements wrapped, leaves front index 0, the element formerly at position
\* p at slot p of the new buffer and the length unchanged; the insertion
\* that caused it then adds its element to the relocated container
RelocationStep ==
  /\ (op'.name \in {"reserve", "shrink_to_fit"} /\ op'.err = NoErr /\ op'.allocs > 0) =>
       /\ Relocated(Before, After)
       /\ Content(After) = ref[op'.who]
  /\ (op'.name \in InsertNames /\ op'.allocs > 0 /\ op'.err \in {NoErr, ConstructionError}) =>
       LET mid == resizeIfRequired(Before, Before.mLength + 1, Before.mLength).q
       IN /\ Relocated(Before, mid)
          /\ mid.mReserved = After.mReserved
          /\ \A p \in 0..(Before.mLength - 1) :
               After.mData[p] = Before.mData[getUncheckedIndex(Before, p)]
          /\ op'.err = ConstructionError => After = mid
          /\ op'.err = NoErr =>
               /\ After.mLength = Before.mLength + 1
               /\ Content(After) = ref'[op'.who]
               /\ IF op'.name \in {"push_back", "emplace_back"}
                    THEN After.mFront = 0 /\ After.mData[Before.mLength] = op'.val
                    ELSE After.mFront = (IF Before.mLength = 0 THEN 0 ELSE After.mReserved - 1)
                         /\ After.mData[After.mFront] = op'.val

C32_RelocationCompacts ==
  [][RelocationStep]_vars

C32_Witness ==
  /\ op.name = "push_back" /\ op.err = NoErr /\ op.allocs = 1 /\ op.deallocs = 1
  /\ ref[op.who] = <<"a", "b", "b">> /\ queue[op.who].mReserved = 4
  /\ queue[op.who].mFront = 0 /\ op.val = "b"

\* C33: an insertion at either end while length < reserved allocates
\* nothing and moves no element: reserved is unchanged, every element keeps
\* its slot, and push_back writes slot (front_index + length) mod reserved,
\* the first slot of the buffer after the last; pops allocate nothing either
FastPathStep ==
  /\ (op'.name \in InsertNames /\ Before.mLength < Before.mReserved) =>
       /\ op'.err \in {NoErr, ConstructionError}
       /\ op'.allocs = 0 /\ op'.deallocs = 0
       /\ After.mReserved = Before.mReserved
       /\ \A k \in Slots(Before) : After.mData[k] = Before.mData[k]
       /\ op'.err = ConstructionError => After = Before
       /\ op'.err = NoErr =>
            LET slot == IF op'.name \in {"push_back", "emplace_back"}
                          THEN (Before.mFront + Before.mLength) % Before.mReserved
                          ELSE IF Before.mLength = 0 THEN 0
                          ELSE (Before.mFront + Before.mReserved - 1) % Before.mReserved
            IN /\ After.mData = [Before.mData EXCEPT ![slot] = op'.val]
               /\ slot \notin Slots(Before)
               /\ After.mLength = Before.mLength + 1
  /\ op'.name \in {"pop_front", "pop_back"} => (op'.allocs = 0 /\ op'.deallocs = 0)

C33_InsertionFastPath ==
  [][FastPathStep]_vars

\* push_back wrote slot 0 of a buffer whose last slot holds the element
\* before it
C33_Witness ==
  /\ op.name = "push_back" /\ op.err = NoErr /\ op.allocs = 0
  /\ queue[op.who].mLength = 3 /\ queue[op.who].mReserved = 3
  /\ queue[op.who].mFront = 1
  /\ queue[op.who].mData[0] = op.val /\ op.val = "b" /\ queue[op.who].mData[2] = "a"

\* C34: on a non-empty container pop_front sets front_index to
\* (front_index + 1) mod reserved and pop_back leaves it unchanged; neither
\* changes reserved, capacity or the slot of a remaining element, and
\* removing the last element releases no storage
PopFrameStep ==
  (op'.name \in {"pop_front", "pop_back"} /\ Before.mLength > 0) =>
    LET gone == IF op'.name = "pop_front" THEN Before.mFront
                ELSE (Before.mFront + Before.mLength - 1) % Before.mReserved
    IN /\ op'.err = NoErr
       /\ After.mFront = IF op'.name = "pop_front"
                            THEN (Before.mFront + 1) % Before.mReserved
                            ELSE Before.mFront
       /\ After.mLength = Before.mLength - 1
       /\ After.mReserved = Before.mReserved
       /\ After.mCapacity = Before.mCapacity
       /\ After.mData = [Before.mData EXCEPT ![gone] = Free]
       /\ \A k \in Slots(After) : After.mData[k] = Before.mData[k]
       /\ op'.allocs = 0 /\ op'.deallocs = 0

C34_PopFrame ==
  [][PopFrameStep]_vars

\* pop_front removed the only element, which was in the last slot
C34_Witness ==
  /\ op.name = "pop_front" /\ op.ret = "true"
  /\ queue[op.who].mLength = 0 /\ queue[op.who].mReserved = 3
  /\ queue[op.who].mFront = 0 /\ op.live = 1

\* C35: in the revision of src/cqueue.hpp, a push, emplace or push_front
\* that fills the last free slot (length + 1 = reserved) and a reserve(n)
\* with n = reserved do not reallocate: the buffer, reserved and the front
\* index (for push_front: but for the slot of the new element) are
\* unchanged and no element moves
NoReallocationStep ==
  /\ (op'.name \in {"push", "emplace", "push_front"} /\ Before.mLength + 1 = Before.mReserved) =>
       /\ op'.allocs = 0 /\ op'.deallocs = 0
       /\ After.mReserved = Before.mReserved
       /\ op'.name # "push_front" => After.mFront = Before.mFront
       /\ \A k \in Slots(Before) : After.mData[k] = Before.mData[k]
  /\ (op'.name = "reserve" /\ op'.arg = Before.mReserved) =>
       /\ op'.allocs = 0 /\ op'.deallocs = 0
       /\ After = Before

C35_NoReallocationAtReserved ==
  [][NoReallocationStep]_vars

\* C36: in the revision of src/cqueue.hpp the maximum element count
\* mCapacity of every container is > 0 in every state, the source of a move
\* construction included
C36_PositiveCapacity ==
  \A i \in Queues : alive[i] => queue[i].mCapacity > 0

\* the position of the iterator of a call is in [-1, size] after the call
\* when it was before
OffsetStep ==
  (op'.name \in {"add_assign", "sub_assign"} /\ it.pos \in (0 - 1)..size(Before))
    => it'.pos \in (0 - 1)..size(After)

\* C37: in the revision of src/cqueue.hpp, it += n and it -= n leave the
\* position of an iterator within [-1, size], for an iterator at any position
\* in [-1, size] and every signed offset n, positive, zero or negative.
C37_OffsetClamping ==
  [][OffsetStep]_vars

\* C38: over the pushes, pops, emplacements, reserve, shrink_to_fit, clear,
\* swap, copies and moves of containers with equal allocators, every buffer
\* allocated is deallocated once with the count it was allocated with: a
\* container holds at most one buffer, of exactly reserved slots, every
\* buffer allocated and not deallocated is held by one container, no element
\* is left in a deallocated buffer, and nothing remains allocated after the
\* containers are all destroyed.
C38_AllocationPairing ==
  /\ \A i \in Queues : DOMAIN queue[i].mData = 0..(queue[i].mReserved - 1)
  /\ \A i \in Queues : ~alive[i] => queue[i].mReserved = 0
  /\ op.live = Holders(queue, alive)
  /\ op.leaked = 0 /\ ~op.bad
  /\ (\A i \in Queues : ~alive[i]) => op.live = 0

\* a container copy left by an exception has deallocated what it allocated
\* and changed no container
CopyFailStep ==
  (op'.name \in {"copy_construct", "copy_assign"} /\ op'.err # NoErr) =>
    /\ op'.allocs = op'.deallocs
    /\ op'.live = op.live
    /\ queue' = queue /\ alive' = alive /\ ref' = ref

\* C39: when the copy of an element throws while a container is copy
\* constructed, directly or as the temporary of a copy assignment, the buffer
\* allocated for the new container is deallocated before the exception
\* reaches the caller, and the source and the destination of the assignment
\* are unchanged.
C39_CopyFailureNoLeak ==
  [][CopyFailStep]_vars

\* an insertion whose element construction threw after the buffer was grown
ConstructFailStep ==
  (op'.name \in InsertNames /\ op'.err = ConstructionError /\ op'.allocs > 0) =>
    /\ size(After) = size(Before)
    /\ Content(After) = Content(Before)
    /\ ref' = ref /\ Content(After) = ref[op'.who]
    /\ After.mFront = 0
    /\ \A k \in DOMAIN After.mData : After.mData[k] # Free <=> k < After.mLength
    /\ StructInv(After)
    /\ After.mCapacity = Before.mCapacity
    /\ After.mReserved > Before.mReserved
    /\ op'.leaked = 0 /\ ~op'.bad

\* C40: when the construction of the new element throws inside push_back,
\* push_front, emplace_back or emplace_front after the buffer was grown, the
\* length and the element sequence are those before the call, the front
\* index is not moved to the slot left unconstructed, and length <= reserved
\* <= capacity and front index < reserved hold; only reserved and the
\* placement of the elements differ.
C40_ConstructFailureAfterGrowth ==
  [][ConstructFailStep]_vars

C40_Witness ==
  /\ op.name = "push_front" /\ op.err = ConstructionError
  /\ op.allocs = 1 /\ op.deallocs = 1
  /\ Len(ref[op.who]) = 2 /\ Content(queue[op.who]) = ref[op.who]
  /\ queue[op.who].mFront = 0 /\ queue[op.who].mReserved = 4

====
